---- MODULE Spec2Model ----
(***************************************************************************)
(* Composed cross-chain transfer flow of the AlphaOFT toolkit:             *)
(*   - ComposeMsg          : the compose payload codec (abi.encode/decode) *)
(*   - AlphaTokenCrossChainManager : the destination-side receiver         *)
(*   - AlphaOFT            : the token (ERC20 balances, owner-only mint,   *)
(*                           sendComposed / quoteSendComposed)             *)
(* Byte strings are sequences of bytes (0..255); a 32-byte ABI word is a   *)
(* sequence of 32 bytes, big-endian.                                       *)
(***************************************************************************)
EXTENDS Integers, Sequences, FiniteSets, TLC

(* ------------------------------ bounds -------------------------------- *)
\* largest amountLD / mint amount / withdraw amount drawn as an input
MaxAmount == 2
\* cap on the tokens minted (bounds the balances)
MaxSupply == 2
\* cap on totalProcessed (the counter is a uint256 in the contract)
MaxTotal == 2

(* ----------------------------- addresses ------------------------------ *)
ZeroAddr == 0
Owner == 1
T1 == 2
T2 == 3
O1 == 4
O2 == 5
This == 6
Alice == 7
\* the AlphaOFT instance of the source chain
SrcOFT == 8
\* a peer OFT (bytes32) registered for a destination
PeerOFT == 9

\* endpoint ids: 0 is no chain, D1 is the chain of the manager
D1 == 1
DstEids == {D1}

\* OFTCore.decimalConversionRate, 10 ** (decimals() - sharedDecimals()),
\* which is 10 ** 12 for the token; scaled down to 2
decimalConversionRate == 2

\* the two AlphaOFT token contracts of the model
Tokens == {O1, O2}
\* accounts whose token balances are tracked
Holders == {This, Alice}

(* ------------------------- ABI words and bytes ------------------------ *)
\* values at or above Big are not told apart: every check of the decoder
\* on such a value fails against the (much shorter) data length
Big == 16777216

Zeros(n) == [i \in 1..n |-> 0]

\* abi.encode of one static value v < 2^24: left-padded to 32 bytes
Word(v) == Zeros(29) \o << (v \div 65536) % 256, (v \div 256) % 256, v % 256 >>

\* mload(data + off): the 32-byte word at byte offset off
WordAt(data, off) == SubSeq(data, off + 1, off + 32)

\* numeric value of a word, Big when it does not fit 24 bits
WordToNat(w) ==
    IF \A i \in 1..29 : w[i] = 0 THEN w[30] * 65536 + w[31] * 256 + w[32] ELSE Big

PadLen(n) == ((n + 31) \div 32) * 32

\* tail encoding of a dynamic `bytes` value: length word, data, zero padding
EncodeBytesTail(b) == Word(Len(b)) \o b \o Zeros(PadLen(Len(b)) - Len(b))

(* ------------------------------ ComposeMsg ---------------------------- *)
CROSS_CHAIN_SEND == 0
BURNT == 1

\* abi.encode(recipient, messageType, additionalData)
encode(recipient, messageType, additionalData) ==
    Word(recipient) \o Word(messageType) \o Word(96) \o EncodeBytesTail(additionalData)

encodeCrossChainSend(recipient) == encode(recipient, CROSS_CHAIN_SEND, << >>)

\* variant: the amount goes into additionalData as one raw byte
encodeBurnt_RawAmount(recipient, amount) == encode(recipient, BURNT, << amount >>)

encodeBurnt(recipient, amount) == encode(recipient, BURNT, Word(amount))

\* abi.decode(data, (address, MessageType, bytes)) succeeds: head of three
\* words present, address word clean, enum value in range, the offset and
\* the length of the bytes field inside the data.  Bytes after the end of
\* the bytes field are not looked at.
DecodeOK(data) ==
    /\ Len(data) >= 96
    /\ \A i \in 1..12 : data[i] = 0
    /\ WordToNat(WordAt(data, 32)) < 2
    /\ LET off == WordToNat(WordAt(data, 64)) IN
         /\ off + 32 <= Len(data)
         /\ off + 32 + WordToNat(WordAt(data, off)) <= Len(data)

NoData == [ok |-> FALSE, recipient |-> ZeroAddr, messageType |-> CROSS_CHAIN_SEND,
           additionalData |-> << >>]

decode(data) ==
    IF ~DecodeOK(data) THEN NoData
    ELSE LET off == WordToNat(WordAt(data, 64))
             n == WordToNat(WordAt(data, off))
         IN [ok |-> TRUE,
             recipient |-> WordToNat(WordAt(data, 0)),
             messageType |-> WordToNat(WordAt(data, 32)),
             additionalData |-> SubSeq(data, off + 33, off + 32 + n)]

\* abi.decode(additionalData, (uint256)) succeeds: one full word present
DecodeUintOK(b) == Len(b) >= 32

DecodeUint(b) == WordToNat(WordAt(b, 0))


(* ------------------------- inputs of the model ------------------------ *)
\* compose payloads handed to lzCompose: the encodings the token produces
\* and hand-crafted byte strings around them
SetTag(data, t) == [data EXCEPT ![64] = t]
Truncate(data, k) == SubSeq(data, 1, Len(data) - k)
Payloads ==
    { encodeCrossChainSend(Alice),
      encodeCrossChainSend(ZeroAddr),
      encodeBurnt(Alice, 2),
      encode(Alice, BURNT, Zeros(31)),
      SetTag(encodeCrossChainSend(Alice), 2),
      Truncate(encodeCrossChainSend(Alice), 1) }

\* recipients named in a sendComposed
Recipients == {ZeroAddr, Alice}
\* the encodings sendComposed can produce
SentPayloads ==
    { encodeCrossChainSend(r) : r \in Recipients }
      \cup { encodeBurnt(r, a) : r \in Recipients, a \in 1..MaxAmount }

\* ComposeMsg.decode of every payload of the model, computed once
Decoded == [m \in Payloads \cup SentPayloads |-> decode(m)]

\* the token that is minted to the manager; the manager holds none of O2
MintedTokens == {O1}
\* amountLD of a delivery, amount of a withdrawal: the smallest and the
\* largest
Amounts == {1, MaxAmount}
\* accounts that deliver compose messages: the endpoint and another caller
Transports == {T1, T2}
\* accounts that call the owner-only functions: the owner and another caller
AdminCallers == {Owner, T2}
\* address arguments of the setters and of initialize
EndpointArgs == {ZeroAddr, T1, T2}
OFTArgs == {ZeroAddr, O1, O2}
InitEndpointArgs == {ZeroAddr, T1}
InitOFTArgs == {ZeroAddr, O1}
OwnerArgs == {ZeroAddr, Owner}
WithdrawTo == {ZeroAddr, Alice}
\* arguments of the sender-side calls
EidArgs == {0, D1}
PeerArgs == {ZeroAddr, PeerOFT}
ManagerArgs == {ZeroAddr, This}
MessageTypeArgs == {CROSS_CHAIN_SEND, BURNT, 2}
\* native fees quoted by the endpoint, msg.value of a call
Fees == {0, 1}
\* accounts whose balances of the source-chain token are tracked
SrcHolders == {Owner, SrcOFT}

(* -------------------------------- state ------------------------------- *)
VARIABLES
    initialized,     \* Initializable: initialize has run
    owner,           \* OwnableUpgradeable owner of the manager
    endpoint,        \* AlphaTokenCrossChainManager.endpoint
    trustedOFT,      \* AlphaTokenCrossChainManager.trustedOFT
    totalProcessed,  \* AlphaTokenCrossChainManager.totalProcessed
    paused,          \* AlphaTokenCrossChainManager.paused
    balances,        \* ERC20 balances of the tokens: [Tokens -> [Holders -> Nat]]
    pre,             \* the storage and the balances before that call
    lastCall,        \* the call that led to this state, with its arguments
    lastResult,      \* "OK" or the error the call reverted with
    lastEvents,      \* events the manager emitted in that call
    held             \* the delivery last rejected with ContractPaused that the
                     \* transport still holds, and how far its redelivery got:
                     \* phase 1 rejected while paused, 2 unpaused by the owner
                     \* since, 3 delivered again right after the unpausing;
                     \* dropped (phase 0) by any call but setPaused
VARIABLES
    peers,              \* OAppCore.peers of the source AlphaOFT, by eid
    crossChainManagers, \* AlphaOFT.crossChainManagers, by eid
    ledger,             \* balances of the source AlphaOFT
    ethSelf,            \* native balance of the source AlphaOFT contract
    price,              \* the native fee the endpoint quotes at present
    inflight,           \* the request last submitted to the endpoint and how
                        \* far the transport got with it: "sent", "credited"
                        \* (lzReceive done on the destination), "composed"
                        \* (lzCompose called), "none"
    sendPre             \* the sender-side state before the last sender-side
                        \* call, the msg.value of that call and the request
                        \* it built, if it got that far
VARIABLES
    deliveredSum,    \* sum of amountLD over the lzCompose calls that succeeded
    replay           \* set when the last call is an lzCompose that repeats the
                     \* call before it, argument for argument: the storage
                     \* and balances before the first of the two, its result
VARIABLES
    codec            \* a use of the ComposeMsg library on its own: the encoding
                     \* made, what was done to its bytes, the library call
                     \* made on them and what it returned
VARIABLES
    rotated          \* the replacement of the trusted endpoint or OFT the owner
                     \* made last and how close it is: step 1 it was the last
                     \* call, 2 an lzCompose came right after it, 0 otherwise
VARIABLES
    scripts          \* the files of the deploy scripts and the runs of the scripts:
                     \* file       deployments.json, the entry of the network
                     \*            deployed to (0 stands for a field not there)
                     \* lock       deployments.json.lock: the run that created
                     \*            it, 0 when the file does not exist
                     \* artifact   the AlphaOFT address in the hardhat-deploy store
                     \* deployed   number of contracts deployed so far; the
                     \*            n-th has address n
                     \* runs       the runs started so far: where each is
                     \*            (pc) and its variables
                     \* lastWrite  the last replacement of deployments.json:
                     \*            the run and the entry before

vars == << initialized, owner, endpoint, trustedOFT, totalProcessed, paused,
           balances, pre, lastCall, lastResult, lastEvents, held,
           deliveredSum, replay,
           peers, crossChainManagers, ledger, ethSelf, price, inflight, sendPre,
           codec, rotated, scripts >>

\* what no call of a contract touches
aside == << codec, rotated, scripts >>

\* the state of the source chain and of the transport
sendVars == << peers, crossChainManagers, ledger, ethSelf, price, inflight, sendPre >>

\* contract storage of the manager and the token ledgers
store == << initialized, owner, endpoint, trustedOFT, totalProcessed, paused, balances >>

Snapshot ==
    [initialized |-> initialized, owner |-> owner, endpoint |-> endpoint,
     trustedOFT |-> trustedOFT, totalProcessed |-> totalProcessed, paused |-> paused,
     balances |-> balances]

NoMsg == [phase |-> 0, sender |-> ZeroAddr, oApp |-> ZeroAddr, amountLD |-> 0, composeMsg |-> << >>]

Msg(phase, sender, oApp, amountLD, composeMsg) ==
    [phase |-> phase, sender |-> sender, oApp |-> oApp, amountLD |-> amountLD,
     composeMsg |-> composeMsg]

\* SendParam as _sendComposed builds it, with the arguments it was built
\* from (recipient, messageType); built = FALSE when none was built
NoRequest ==
    [built |-> FALSE, dstEid |-> 0, to |-> ZeroAddr, amountLD |-> 0, minAmountLD |-> 0,
     composeMsg |-> << >>, recipient |-> ZeroAddr, messageType |-> CROSS_CHAIN_SEND,
     extraOptions |-> << >>, oftCmd |-> ""]

NoFlight == [stage |-> "none", request |-> NoRequest, amountReceivedLD |-> 0]

SendSnapshot(value, request) ==
    [peers |-> peers, crossChainManagers |-> crossChainManagers, ledger |-> ledger,
     ethSelf |-> ethSelf, inflight |-> inflight, value |-> value, request |-> request]

NoReplay == [on |-> FALSE, before |-> Snapshot, result |-> "OK"]

\* no use of the library yet
NoCodec == [how |-> "none", op |-> "none"]

\* the runs of the model: two of deploy/AlphaOFT.ts, one of
\* deploy/AlphaTokenCrossChainManager.ts, on the same network
OFTRuns == {1, 2}
ManagerRuns == {3}
Runs == OFTRuns \cup ManagerRuns

\* the EndpointV2 address of the external deployments
EndpointV2 == 10

NoEntry == [tokenAddress |-> 0, lzEndpoint |-> 0, crossChainManagerAddress |-> 0]

\* a run that has just started
NoLocal ==
    [pc |-> "start", endpointAddress |-> 0, trustedOFTAddress |-> 0, address |-> 0,
     latest |-> NoEntry]

NoWrite == [by |-> 0, before |-> NoEntry]

NoRotation == [step |-> 0, what |-> "none", old |-> ZeroAddr, new |-> ZeroAddr]

\* one shape for every call: op, msg.sender, up to three address arguments,
\* an amount, a byte string and a flag
Call(op, sender, a1, a2, a3, amount, data, flag) ==
    [op |-> op, sender |-> sender, a1 |-> a1, a2 |-> a2, a3 |-> a3,
     amount |-> amount, data |-> data, flag |-> flag]

Init ==
    /\ initialized = FALSE
    /\ owner = ZeroAddr
    /\ endpoint = ZeroAddr
    /\ trustedOFT = ZeroAddr
    /\ totalProcessed = 0
    /\ paused = FALSE
    /\ balances = [t \in Tokens |-> [h \in Holders |-> 0]]
    /\ pre = Snapshot
    /\ lastCall = Call("deploy", Owner, ZeroAddr, ZeroAddr, ZeroAddr, 0, << >>, FALSE)
    /\ lastResult = "OK"
    /\ lastEvents = << >>
    /\ held = NoMsg
    /\ deliveredSum = 0
    /\ replay = [on |-> FALSE, before |-> Snapshot, result |-> "OK"]
    /\ peers = [e \in DstEids |-> ZeroAddr]
    /\ crossChainManagers = [e \in DstEids |-> ZeroAddr]
    /\ ledger = [h \in SrcHolders |-> 0]
    /\ ethSelf = 0
    /\ price = 1
    /\ inflight = NoFlight
    /\ sendPre = SendSnapshot(0, NoRequest)
    /\ codec = NoCodec
    /\ rotated = NoRotation
    /\ scripts = [file |-> NoEntry, lock |-> 0, artifact |-> 0, deployed |-> 0,
                  runs |-> << >>, lastWrite |-> NoWrite]

(* ------------------------------- ERC20 -------------------------------- *)
Supply(bal, token) == bal[token][This] + bal[token][Alice]

Minted(bal) == Supply(bal, O1) + Supply(bal, O2)

\* IERC20(token).safeTransfer(to, value) called by `from`
safeTransferError(bal, token, from, to, value) ==
    IF token \notin Tokens THEN "AddressEmptyCode"
    ELSE IF to = ZeroAddr THEN "ERC20InvalidReceiver"
    ELSE IF bal[token][from] < value THEN "ERC20InsufficientBalance"
    ELSE "OK"

safeTransfer(bal, token, from, to, value) ==
    LET debited == [bal EXCEPT ![token][from] = @ - value]
    IN [debited EXCEPT ![token][to] = @ + value]

\* AlphaOFT.mint(_to, _amount), onlyOwner
mint(token, sender, to, amount) ==
    /\ Minted(balances) + amount <= MaxSupply
    /\ LET res == IF sender # Owner THEN "OwnableUnauthorizedAccount" ELSE "OK" IN
         /\ lastResult' = res
         /\ balances' = IF res = "OK" THEN [balances EXCEPT ![token][to] = @ + amount]
                        ELSE balances
    /\ pre' = Snapshot
    /\ lastCall' = Call("mint", sender, token, to, ZeroAddr, amount, << >>, FALSE)
    /\ lastEvents' = << >>
    /\ held' = NoMsg
    /\ replay' = NoReplay
    /\ UNCHANGED deliveredSum
    /\ UNCHANGED << initialized, owner, endpoint, trustedOFT, totalProcessed, paused >>

(* --------------------- AlphaTokenCrossChainManager -------------------- *)
\* variant: without the `initializer` guard, initialize works again
initialize_Repeatable(sender, _endpoint, _trustedOFT, _owner) ==
    LET res == IF _endpoint = ZeroAddr \/ _trustedOFT = ZeroAddr \/ _owner = ZeroAddr
               THEN "ZeroAddress"
               ELSE "OK"
    IN /\ lastResult' = res
       /\ IF res = "OK"
          THEN /\ initialized' = TRUE
               /\ owner' = _owner
               /\ endpoint' = _endpoint
               /\ trustedOFT' = _trustedOFT
               /\ paused' = FALSE
               /\ totalProcessed' = 0
          ELSE UNCHANGED << initialized, owner, endpoint, trustedOFT, paused, totalProcessed >>
       /\ pre' = Snapshot
       /\ lastCall' = Call("initialize", sender, _endpoint, _trustedOFT, _owner, 0, << >>, FALSE)
       /\ lastEvents' = << >>
       /\ held' = NoMsg
       /\ replay' = NoReplay
       /\ UNCHANGED deliveredSum
       /\ UNCHANGED balances

\* initialize(_endpoint, _trustedOFT, _owner), guarded by `initializer`
initialize(sender, _endpoint, _trustedOFT, _owner) ==
    LET res == IF initialized THEN "InvalidInitialization"
               ELSE IF _endpoint = ZeroAddr \/ _trustedOFT = ZeroAddr \/ _owner = ZeroAddr
                    THEN "ZeroAddress"
               ELSE "OK"
    IN /\ lastResult' = res
       /\ IF res = "OK"
          THEN /\ initialized' = TRUE
               /\ owner' = _owner
               /\ endpoint' = _endpoint
               /\ trustedOFT' = _trustedOFT
               /\ paused' = FALSE
               /\ totalProcessed' = 0
          ELSE UNCHANGED << initialized, owner, endpoint, trustedOFT, paused, totalProcessed >>
       /\ pre' = Snapshot
       /\ lastCall' = Call("initialize", sender, _endpoint, _trustedOFT, _owner, 0, << >>, FALSE)
       /\ lastEvents' = << >>
       /\ held' = NoMsg
       /\ replay' = NoReplay
       /\ UNCHANGED deliveredSum
       /\ UNCHANGED balances

\* the payload branch of lzCompose: decode, dispatch on the type, transfer
payloadResult(amountLD, composeMsg) ==
    IF ~Decoded[composeMsg].ok THEN "AbiDecodeRevert"
    ELSE LET composeData == Decoded[composeMsg] IN
         IF composeData.messageType = CROSS_CHAIN_SEND
         THEN safeTransferError(balances, trustedOFT, This, composeData.recipient, amountLD)
         ELSE IF composeData.messageType = BURNT
         THEN IF ~DecodeUintOK(composeData.additionalData) THEN "AbiDecodeRevert"
              ELSE safeTransferError(balances, trustedOFT, This, composeData.recipient, amountLD)
         ELSE "UnsupportedMessageType"

\* variant: the msg.sender check is missing
lzComposeResult_NoSenderCheck(sender, _oApp, amountLD, composeMsg) ==
    IF paused THEN "ContractPaused"
    ELSE IF _oApp # trustedOFT THEN "UntrustedOApp"
    ELSE payloadResult(amountLD, composeMsg)

\* variant: the _oApp check is missing
lzComposeResult_NoOriginCheck(sender, _oApp, amountLD, composeMsg) ==
    IF paused THEN "ContractPaused"
    ELSE IF sender # endpoint THEN "UnauthorizedSender"
    ELSE payloadResult(amountLD, composeMsg)

\* variant: the _oApp check comes before the msg.sender check
lzComposeResult_OriginFirst(sender, _oApp, amountLD, composeMsg) ==
    IF paused THEN "ContractPaused"
    ELSE IF _oApp # trustedOFT THEN "UntrustedOApp"
    ELSE IF sender # endpoint THEN "UnauthorizedSender"
    ELSE payloadResult(amountLD, composeMsg)

\* variant: the paused check is missing
lzComposeResult_NoPauseCheck(sender, _oApp, amountLD, composeMsg) ==
    IF sender # endpoint THEN "UnauthorizedSender"
    ELSE IF _oApp # trustedOFT THEN "UntrustedOApp"
    ELSE payloadResult(amountLD, composeMsg)

\* variant: the BURNT branch does not decode the additional data
lzComposeResult_NoBurntDecode(sender, _oApp, amountLD, composeMsg) ==
    IF paused THEN "ContractPaused"
    ELSE IF sender # endpoint THEN "UnauthorizedSender"
    ELSE IF _oApp # trustedOFT THEN "UntrustedOApp"
    ELSE IF ~Decoded[composeMsg].ok THEN "AbiDecodeRevert"
    ELSE safeTransferError(balances, trustedOFT, This, Decoded[composeMsg].recipient, amountLD)

\* variant: an envelope that was just processed is not processed again
lzComposeResult_OncePerEnvelope(sender, _oApp, amountLD, composeMsg) ==
    IF paused THEN "ContractPaused"
    ELSE IF sender # endpoint THEN "UnauthorizedSender"
    ELSE IF _oApp # trustedOFT THEN "UntrustedOApp"
    ELSE IF /\ lastResult = "OK"
            /\ lastCall = Call("lzCompose", sender, _oApp, ZeroAddr, ZeroAddr, amountLD,
                               composeMsg, FALSE)
         THEN "AlreadyProcessed"
    ELSE payloadResult(amountLD, composeMsg)

\* the outcome of lzCompose(_oApp, _guid, _message, ..) sent by `sender`,
\* where _message carries amountLD and composeMsg: "OK" or the revert
lzComposeResult(sender, _oApp, amountLD, composeMsg) ==
    IF paused THEN "ContractPaused"
    ELSE IF sender # endpoint THEN "UnauthorizedSender"
    ELSE IF _oApp # trustedOFT THEN "UntrustedOApp"
    ELSE payloadResult(amountLD, composeMsg)

\* the monitor of the delivery rejected while paused, after a delivery
heldAfter(res, sender, _oApp, amountLD, composeMsg) ==
    IF held = Msg(2, sender, _oApp, amountLD, composeMsg)
    THEN Msg(3, sender, _oApp, amountLD, composeMsg)
    ELSE IF res = "ContractPaused" THEN Msg(1, sender, _oApp, amountLD, composeMsg)
    ELSE NoMsg

\* the monitor of a repeated delivery, after the delivery `call`
replayAfter(call) ==
    IF lastCall = call THEN [on |-> TRUE, before |-> pre, result |-> lastResult]
    ELSE NoReplay

\* variant: the burnt amount of a BURNT message is what is transferred
lzCompose_BurntAmount(sender, _oApp, amountLD, composeMsg) ==
    LET res == lzComposeResult(sender, _oApp, amountLD, composeMsg)
        composeData == Decoded[composeMsg]
        value == IF composeData.messageType = BURNT THEN DecodeUint(composeData.additionalData)
                 ELSE amountLD
        reached == res \in {"OK", "ERC20InsufficientBalance"}
        ok == reached /\ balances[trustedOFT][This] >= value
    IN /\ ok => totalProcessed + amountLD <= MaxTotal
       /\ lastResult' = IF ok THEN "OK" ELSE IF reached THEN "ERC20InsufficientBalance" ELSE res
       /\ IF ok
          THEN /\ balances' = safeTransfer(balances, trustedOFT, This, composeData.recipient, value)
               /\ totalProcessed' = totalProcessed + amountLD
               /\ lastEvents' = << << "TokensProcessed", composeData.recipient, amountLD,
                                     composeData.messageType >> >>
          ELSE /\ UNCHANGED << balances, totalProcessed >>
               /\ lastEvents' = << >>
       /\ pre' = Snapshot
       /\ lastCall' = Call("lzCompose", sender, _oApp, ZeroAddr, ZeroAddr, amountLD, composeMsg, FALSE)
       /\ held' = heldAfter(res, sender, _oApp, amountLD, composeMsg)
       /\ deliveredSum' = IF lastResult' = "OK" THEN deliveredSum + amountLD ELSE deliveredSum
       /\ replay' = replayAfter(Call("lzCompose", sender, _oApp, ZeroAddr, ZeroAddr, amountLD, composeMsg, FALSE))
       /\ UNCHANGED << initialized, owner, endpoint, trustedOFT, paused >>

\* variant: totalProcessed counts deliveries instead of amounts
lzCompose_CountsCalls(sender, _oApp, amountLD, composeMsg) ==
    LET res == lzComposeResult(sender, _oApp, amountLD, composeMsg)
        composeData == Decoded[composeMsg]
    IN /\ res = "OK" => totalProcessed + 1 <= MaxTotal
       /\ lastResult' = res
       /\ IF res = "OK"
          THEN /\ balances' = safeTransfer(balances, trustedOFT, This, composeData.recipient, amountLD)
               /\ totalProcessed' = totalProcessed + 1
               /\ lastEvents' = << << "TokensProcessed", composeData.recipient, amountLD,
                                     composeData.messageType >> >>
          ELSE /\ UNCHANGED << balances, totalProcessed >>
               /\ lastEvents' = << >>
       /\ pre' = Snapshot
       /\ lastCall' = Call("lzCompose", sender, _oApp, ZeroAddr, ZeroAddr, amountLD, composeMsg, FALSE)
       /\ held' = heldAfter(res, sender, _oApp, amountLD, composeMsg)
       /\ deliveredSum' = IF lastResult' = "OK" THEN deliveredSum + amountLD ELSE deliveredSum
       /\ replay' = replayAfter(Call("lzCompose", sender, _oApp, ZeroAddr, ZeroAddr, amountLD, composeMsg, FALSE))
       /\ UNCHANGED << initialized, owner, endpoint, trustedOFT, paused >>

\* variant: the token is called with a low-level call whose failure is
\* ignored, so a transfer that fails is still counted as processed
lzCompose_UncheckedTransfer(sender, _oApp, amountLD, composeMsg) ==
    LET res == lzComposeResult(sender, _oApp, amountLD, composeMsg)
        composeData == Decoded[composeMsg]
        swallowed == res \in {"ERC20InsufficientBalance", "ERC20InvalidReceiver"}
    IN /\ (res = "OK" \/ swallowed) => totalProcessed + amountLD <= MaxTotal
       /\ lastResult' = IF swallowed THEN "OK" ELSE res
       /\ IF res = "OK" \/ swallowed
          THEN /\ balances' = IF swallowed THEN balances
                              ELSE safeTransfer(balances, trustedOFT, This, composeData.recipient, amountLD)
               /\ totalProcessed' = totalProcessed + amountLD
               /\ lastEvents' = << << "TokensProcessed", composeData.recipient, amountLD,
                                     composeData.messageType >> >>
          ELSE /\ UNCHANGED << balances, totalProcessed >>
               /\ lastEvents' = << >>
       /\ pre' = Snapshot
       /\ lastCall' = Call("lzCompose", sender, _oApp, ZeroAddr, ZeroAddr, amountLD, composeMsg, FALSE)
       /\ held' = heldAfter(res, sender, _oApp, amountLD, composeMsg)
       /\ deliveredSum' = IF lastResult' = "OK" THEN deliveredSum + amountLD ELSE deliveredSum
       /\ replay' = replayAfter(Call("lzCompose", sender, _oApp, ZeroAddr, ZeroAddr, amountLD, composeMsg, FALSE))
       /\ UNCHANGED << initialized, owner, endpoint, trustedOFT, paused >>

lzCompose(sender, _oApp, amountLD, composeMsg) ==
    LET res == lzComposeResult(sender, _oApp, amountLD, composeMsg)
        composeData == Decoded[composeMsg]
    IN /\ res = "OK" => totalProcessed + amountLD <= MaxTotal
       /\ lastResult' = res
       /\ IF res = "OK"
          THEN /\ balances' = safeTransfer(balances, trustedOFT, This, composeData.recipient, amountLD)
               /\ totalProcessed' = totalProcessed + amountLD
               /\ lastEvents' = << << "TokensProcessed", composeData.recipient, amountLD,
                                     composeData.messageType >> >>
          ELSE /\ UNCHANGED << balances, totalProcessed >>
               /\ lastEvents' = << >>
       /\ pre' = Snapshot
       /\ lastCall' = Call("lzCompose", sender, _oApp, ZeroAddr, ZeroAddr, amountLD, composeMsg, FALSE)
       /\ held' = heldAfter(res, sender, _oApp, amountLD, composeMsg)
       /\ deliveredSum' = IF lastResult' = "OK" THEN deliveredSum + amountLD ELSE deliveredSum
       /\ replay' = replayAfter(Call("lzCompose", sender, _oApp, ZeroAddr, ZeroAddr, amountLD, composeMsg, FALSE))
       /\ UNCHANGED << initialized, owner, endpoint, trustedOFT, paused >>

\* variant: the owner check lets every caller through
onlyOwnerError_Anyone(sender) == "OK"

\* modifier onlyOwner
onlyOwnerError(sender) == IF sender # owner THEN "OwnableUnauthorizedAccount" ELSE "OK"

\* updateEndpoint(_newEndpoint)
updateEndpoint(sender, _newEndpoint) ==
    LET res == IF onlyOwnerError(sender) # "OK" THEN onlyOwnerError(sender)
               ELSE IF _newEndpoint = ZeroAddr THEN "ZeroAddress" ELSE "OK"
    IN /\ lastResult' = res
       /\ endpoint' = IF res = "OK" THEN _newEndpoint ELSE endpoint
       /\ lastEvents' = IF res = "OK" THEN << << "EndpointUpdated", endpoint, _newEndpoint >> >>
                        ELSE << >>
       /\ pre' = Snapshot
       /\ lastCall' = Call("updateEndpoint", sender, _newEndpoint, ZeroAddr, ZeroAddr, 0, << >>, FALSE)
       /\ held' = NoMsg
       /\ replay' = NoReplay
       /\ UNCHANGED deliveredSum
       /\ UNCHANGED << initialized, owner, trustedOFT, totalProcessed, paused, balances >>

\* variant: the counter starts again from zero for a new trusted OFT
updateTrustedOFT_ResetsTotal(sender, _newTrustedOFT) ==
    LET res == IF onlyOwnerError(sender) # "OK" THEN onlyOwnerError(sender)
               ELSE IF _newTrustedOFT = ZeroAddr THEN "ZeroAddress" ELSE "OK"
    IN /\ lastResult' = res
       /\ trustedOFT' = IF res = "OK" THEN _newTrustedOFT ELSE trustedOFT
       /\ totalProcessed' = IF res = "OK" THEN 0 ELSE totalProcessed
       /\ lastEvents' = IF res = "OK" THEN << << "TrustedOFTUpdated", trustedOFT, _newTrustedOFT >> >>
                        ELSE << >>
       /\ pre' = Snapshot
       /\ lastCall' = Call("updateTrustedOFT", sender, _newTrustedOFT, ZeroAddr, ZeroAddr, 0, << >>, FALSE)
       /\ held' = NoMsg
       /\ replay' = NoReplay
       /\ UNCHANGED deliveredSum
       /\ UNCHANGED << initialized, owner, endpoint, paused, balances >>

\* variant: the event is emitted but the stored origin stays
updateTrustedOFT_KeepsOld(sender, _newTrustedOFT) ==
    LET res == IF onlyOwnerError(sender) # "OK" THEN onlyOwnerError(sender)
               ELSE IF _newTrustedOFT = ZeroAddr THEN "ZeroAddress" ELSE "OK"
    IN /\ lastResult' = res
       /\ lastEvents' = IF res = "OK" THEN << << "TrustedOFTUpdated", trustedOFT, _newTrustedOFT >> >>
                        ELSE << >>
       /\ pre' = Snapshot
       /\ lastCall' = Call("updateTrustedOFT", sender, _newTrustedOFT, ZeroAddr, ZeroAddr, 0, << >>, FALSE)
       /\ held' = NoMsg
       /\ replay' = NoReplay
       /\ UNCHANGED deliveredSum
       /\ UNCHANGED << initialized, owner, endpoint, trustedOFT, totalProcessed, paused, balances >>

\* updateTrustedOFT(_newTrustedOFT)
updateTrustedOFT(sender, _newTrustedOFT) ==
    LET res == IF onlyOwnerError(sender) # "OK" THEN onlyOwnerError(sender)
               ELSE IF _newTrustedOFT = ZeroAddr THEN "ZeroAddress" ELSE "OK"
    IN /\ lastResult' = res
       /\ trustedOFT' = IF res = "OK" THEN _newTrustedOFT ELSE trustedOFT
       /\ lastEvents' = IF res = "OK" THEN << << "TrustedOFTUpdated", trustedOFT, _newTrustedOFT >> >>
                        ELSE << >>
       /\ pre' = Snapshot
       /\ lastCall' = Call("updateTrustedOFT", sender, _newTrustedOFT, ZeroAddr, ZeroAddr, 0, << >>, FALSE)
       /\ held' = NoMsg
       /\ replay' = NoReplay
       /\ UNCHANGED deliveredSum
       /\ UNCHANGED << initialized, owner, endpoint, totalProcessed, paused, balances >>

\* the monitor of the delivery rejected while paused, after a setPaused
heldAfterPause(res, _paused) ==
    IF held.phase \in {1, 2} /\ res = "OK"
    THEN [held EXCEPT !.phase = IF _paused THEN 1 ELSE 2]
    ELSE IF held.phase = 3 THEN NoMsg ELSE held

\* variant: the flag can be set but not cleared
setPaused_OnlySets(sender, _paused) ==
    LET res == onlyOwnerError(sender)
    IN /\ lastResult' = res
       /\ paused' = IF res = "OK" THEN (paused \/ _paused) ELSE paused
       /\ lastEvents' = IF res = "OK" THEN << << "PausedStateChanged", _paused >> >> ELSE << >>
       /\ pre' = Snapshot
       /\ lastCall' = Call("setPaused", sender, ZeroAddr, ZeroAddr, ZeroAddr, 0, << >>, _paused)
       /\ held' = heldAfterPause(res, _paused)
       /\ replay' = NoReplay
       /\ UNCHANGED deliveredSum
       /\ UNCHANGED << initialized, owner, endpoint, trustedOFT, totalProcessed, balances >>

\* setPaused(_paused)
setPaused(sender, _paused) ==
    LET res == onlyOwnerError(sender)
    IN /\ lastResult' = res
       /\ paused' = IF res = "OK" THEN _paused ELSE paused
       /\ lastEvents' = IF res = "OK" THEN << << "PausedStateChanged", _paused >> >> ELSE << >>
       /\ pre' = Snapshot
       /\ lastCall' = Call("setPaused", sender, ZeroAddr, ZeroAddr, ZeroAddr, 0, << >>, _paused)
       /\ held' = heldAfterPause(res, _paused)
       /\ replay' = NoReplay
       /\ UNCHANGED deliveredSum
       /\ UNCHANGED << initialized, owner, endpoint, trustedOFT, totalProcessed, balances >>

\* variant: the withdrawal is refused while the manager is paused
emergencyWithdraw_WhenNotPaused(sender, _token, _to, _amount) ==
    LET res == IF onlyOwnerError(sender) # "OK" THEN onlyOwnerError(sender)
               ELSE IF paused THEN "ContractPaused"
               ELSE IF _to = ZeroAddr THEN "ZeroAddress"
               ELSE safeTransferError(balances, _token, This, _to, _amount)
    IN /\ lastResult' = res
       /\ balances' = IF res = "OK" THEN safeTransfer(balances, _token, This, _to, _amount)
                      ELSE balances
       /\ lastEvents' = << >>
       /\ pre' = Snapshot
       /\ lastCall' = Call("emergencyWithdraw", sender, _token, _to, ZeroAddr, _amount, << >>, FALSE)
       /\ held' = NoMsg
       /\ replay' = NoReplay
       /\ UNCHANGED deliveredSum
       /\ UNCHANGED << initialized, owner, endpoint, trustedOFT, totalProcessed, paused >>

\* variant: the withdrawal is open to every caller
emergencyWithdraw_Anyone(sender, _token, _to, _amount) ==
    LET res == IF _to = ZeroAddr THEN "ZeroAddress"
               ELSE safeTransferError(balances, _token, This, _to, _amount)
    IN /\ lastResult' = res
       /\ balances' = IF res = "OK" THEN safeTransfer(balances, _token, This, _to, _amount)
                      ELSE balances
       /\ lastEvents' = << >>
       /\ pre' = Snapshot
       /\ lastCall' = Call("emergencyWithdraw", sender, _token, _to, ZeroAddr, _amount, << >>, FALSE)
       /\ held' = NoMsg
       /\ replay' = NoReplay
       /\ UNCHANGED deliveredSum
       /\ UNCHANGED << initialized, owner, endpoint, trustedOFT, totalProcessed, paused >>

\* emergencyWithdraw(_token, _to, _amount)
emergencyWithdraw(sender, _token, _to, _amount) ==
    LET res == IF onlyOwnerError(sender) # "OK" THEN onlyOwnerError(sender)
               ELSE IF _to = ZeroAddr THEN "ZeroAddress"
               ELSE safeTransferError(balances, _token, This, _to, _amount)
    IN /\ lastResult' = res
       /\ balances' = IF res = "OK" THEN safeTransfer(balances, _token, This, _to, _amount)
                      ELSE balances
       /\ lastEvents' = << >>
       /\ pre' = Snapshot
       /\ lastCall' = Call("emergencyWithdraw", sender, _token, _to, ZeroAddr, _amount, << >>, FALSE)
       /\ held' = NoMsg
       /\ replay' = NoReplay
       /\ UNCHANGED deliveredSum
       /\ UNCHANGED << initialized, owner, endpoint, trustedOFT, totalProcessed, paused >>

\* upgradeToAndCall reaching _authorizeUpgrade(newImplementation), onlyOwner;
\* the new implementation is taken to keep the code
authorizeUpgrade(sender) ==
    /\ lastResult' = onlyOwnerError(sender)
    /\ lastEvents' = << >>
    /\ pre' = Snapshot
    /\ lastCall' = Call("authorizeUpgrade", sender, ZeroAddr, ZeroAddr, ZeroAddr, 0, << >>, FALSE)
    /\ held' = NoMsg
    /\ replay' = NoReplay
    /\ UNCHANGED deliveredSum
    /\ UNCHANGED store

(* ------------------------------- AlphaOFT ----------------------------- *)
\* OFTCore._removeDust and _toSD
removeDust(amountLD) == (amountLD \div decimalConversionRate) * decimalConversionRate
toSD(amountLD) == amountLD \div decimalConversionRate

\* variant: the amount in shared decimals is credited as it is
toLD_NoScaling(amountSD) == amountSD

\* OFTCore._toLD
toLD(amountSD) == amountSD * decimalConversionRate

\* a sender-side call leaves the manager alone
ManagerIdle ==
    /\ pre' = Snapshot
    /\ held' = NoMsg
    /\ replay' = NoReplay
    /\ UNCHANGED << deliveredSum, initialized, owner, endpoint, trustedOFT, totalProcessed, paused >>
    /\ UNCHANGED aside

\* OAppCore.setPeer(_eid, _peer), onlyOwner
setPeer(sender, _eid, _peer) ==
    LET res == IF sender # Owner THEN "OwnableUnauthorizedAccount" ELSE "OK"
    IN /\ lastResult' = res
       /\ peers' = IF res = "OK" THEN [peers EXCEPT ![_eid] = _peer] ELSE peers
       /\ lastEvents' = IF res = "OK" THEN << << "PeerSet", _eid, _peer >> >> ELSE << >>
       /\ sendPre' = SendSnapshot(0, NoRequest)
       /\ lastCall' = Call("setPeer", sender, _peer, _eid, ZeroAddr, 0, << >>, FALSE)
       /\ UNCHANGED << crossChainManagers, ledger, ethSelf, price, inflight, balances >>
       /\ ManagerIdle

\* setCrossChainManager(_dstEid, _crossChainManager)
setCrossChainManager(sender, _dstEid, _crossChainManager) ==
    LET res == IF sender # Owner THEN "OwnableUnauthorizedAccount"
               ELSE IF _dstEid = 0 THEN "InvalidEndpointId"
               ELSE IF _crossChainManager = ZeroAddr THEN "ZeroAddress"
               ELSE "OK"
    IN /\ lastResult' = res
       /\ crossChainManagers' = IF res = "OK"
                                THEN [crossChainManagers EXCEPT ![_dstEid] = _crossChainManager]
                                ELSE crossChainManagers
       /\ lastEvents' = IF res = "OK"
                        THEN << << "CrossChainManagerUpdated", _dstEid,
                                   crossChainManagers[_dstEid], _crossChainManager >> >>
                        ELSE << >>
       /\ sendPre' = SendSnapshot(0, NoRequest)
       /\ lastCall' = Call("setCrossChainManager", sender, _crossChainManager, _dstEid, ZeroAddr,
                           0, << >>, FALSE)
       /\ UNCHANGED << peers, ledger, ethSelf, price, inflight, balances >>
       /\ ManagerIdle

\* tokens burnt on the source chain and not yet minted on chain D1
InTransit == IF inflight.stage = "sent" THEN inflight.amountReceivedLD ELSE 0

\* mint(_to, _amount) of the source AlphaOFT, onlyOwner; the supply of the
\* token on the source chain and in transit is capped
mintSource(sender, _to, _amount) ==
    /\ ledger[Owner] + ledger[SrcOFT] + InTransit + _amount <= MaxSupply
    /\ LET res == IF sender # Owner THEN "OwnableUnauthorizedAccount" ELSE "OK" IN
         /\ lastResult' = res
         /\ ledger' = IF res = "OK" THEN [ledger EXCEPT ![_to] = @ + _amount] ELSE ledger
    /\ lastEvents' = << >>
    /\ sendPre' = SendSnapshot(0, NoRequest)
    /\ lastCall' = Call("mintSource", sender, _to, ZeroAddr, ZeroAddr, _amount, << >>, FALSE)
    /\ UNCHANGED << peers, crossChainManagers, ethSelf, price, inflight, balances >>
    /\ ManagerIdle

\* ERC20 transfer(to, value) of the source AlphaOFT: the send-composed task
\* moves the caller's tokens to the token contract before it sends
transferSource(sender, to, value) ==
    LET res == IF to = ZeroAddr THEN "ERC20InvalidReceiver"
               ELSE IF ledger[sender] < value THEN "ERC20InsufficientBalance"
               ELSE "OK"
    IN /\ lastResult' = res
       /\ ledger' = IF res = "OK"
                    THEN [h \in SrcHolders |->
                            ledger[h] - (IF h = sender THEN value ELSE 0)
                                      + (IF h = to THEN value ELSE 0)]
                    ELSE ledger
       /\ lastEvents' = << >>
       /\ sendPre' = SendSnapshot(0, NoRequest)
       /\ lastCall' = Call("transferSource", sender, to, ZeroAddr, ZeroAddr, value, << >>, FALSE)
       /\ UNCHANGED << peers, crossChainManagers, ethSelf, price, inflight, balances >>
       /\ ManagerIdle

\* the endpoint of the source chain changes what it charges
setPrice(p) ==
    /\ price' = p
    /\ lastResult' = "OK"
    /\ lastEvents' = << >>
    /\ sendPre' = SendSnapshot(0, NoRequest)
    /\ lastCall' = Call("setPrice", T1, ZeroAddr, ZeroAddr, ZeroAddr, p, << >>, FALSE)
    /\ UNCHANGED << peers, crossChainManagers, ledger, ethSelf, inflight, balances >>
    /\ ManagerIdle

\* variant: the manager is looked up before the peer
validDestinationError_ManagerFirst(_dstEid) ==
    IF _dstEid = 0 THEN "InvalidEndpointId"
    ELSE IF crossChainManagers[_dstEid] = ZeroAddr THEN "NoCrossChainManager"
    ELSE IF peers[_dstEid] = ZeroAddr THEN "NoPeerConfigured"
    ELSE "OK"

\* modifier validDestination(_dstEid)
validDestinationError(_dstEid) ==
    IF _dstEid = 0 THEN "InvalidEndpointId"
    ELSE IF peers[_dstEid] = ZeroAddr THEN "NoPeerConfigured"
    ELSE IF crossChainManagers[_dstEid] = ZeroAddr THEN "NoCrossChainManager"
    ELSE "OK"

\* the compose message, by message type; the last branch is
\* revert("Invalid message type")
composePayloadError(_messageType) ==
    IF _messageType = CROSS_CHAIN_SEND THEN "OK"
    ELSE IF _messageType = BURNT THEN "OK"
    ELSE "Invalid message type"

\* variant: every message is encoded as a CROSS_CHAIN_SEND
composePayload_AlwaysCrossChainSend(_to, _amount, _messageType) ==
    IF _messageType \in {CROSS_CHAIN_SEND, BURNT} THEN encodeCrossChainSend(_to)
    ELSE << >>

composePayload(_to, _amount, _messageType) ==
    IF _messageType = CROSS_CHAIN_SEND THEN encodeCrossChainSend(_to)
    ELSE IF _messageType = BURNT THEN encodeBurnt(_to, _amount)
    ELSE << >>

\* composePayload for the arguments of the calls of the model
composePayloads ==
    [r \in Recipients |-> [a \in Amounts |-> [t \in MessageTypeArgs |-> composePayload(r, a, t)]]]

\* the _extraOptions of every call of the model: the header of type-3 options
ExtraOptions == << 0, 3 >>

\* SendParam of _sendComposed; recipient and messageType keep the arguments
\* it was built from
buildSendParam(_to, _amount, _dstEid, _messageType) ==
    [built |-> TRUE, dstEid |-> _dstEid, to |-> crossChainManagers[_dstEid],
     amountLD |-> _amount, minAmountLD |-> _amount,
     composeMsg |-> composePayloads[_to][_amount][_messageType],
     recipient |-> _to, messageType |-> _messageType,
     extraOptions |-> ExtraOptions, oftCmd |-> "0x"]

\* the compose message of quoteSendComposed
quotePayload(_to, _amount, _messageType) ==
    IF _messageType = CROSS_CHAIN_SEND THEN encodeCrossChainSend(_to)
    ELSE IF _messageType = BURNT THEN encodeBurnt(_to, _amount)
    ELSE << >>

\* quotePayload for the arguments of the calls of the model
quotePayloads ==
    [r \in Recipients |-> [a \in Amounts |-> [t \in MessageTypeArgs |-> quotePayload(r, a, t)]]]

\* variant: the quote is made for a send to the recipient itself and
\* without the caller's options
quoteSendParam_ToRecipient(_to, _amount, _dstEid, _messageType) ==
    [built |-> TRUE, dstEid |-> _dstEid, to |-> _to,
     amountLD |-> _amount, minAmountLD |-> _amount,
     composeMsg |-> quotePayloads[_to][_amount][_messageType],
     recipient |-> _to, messageType |-> _messageType,
     extraOptions |-> << >>, oftCmd |-> "0x"]

\* SendParam of quoteSendComposed
quoteSendParam(_to, _amount, _dstEid, _messageType) ==
    [built |-> TRUE, dstEid |-> _dstEid, to |-> crossChainManagers[_dstEid],
     amountLD |-> _amount, minAmountLD |-> _amount,
     composeMsg |-> quotePayloads[_to][_amount][_messageType],
     recipient |-> _to, messageType |-> _messageType,
     extraOptions |-> ExtraOptions, oftCmd |-> "0x"]

\* OFTCore.quoteSend: _debitView rejects an amount whose dust-free part is
\* below minAmountLD, then the endpoint quotes
quoteSendError(sendParam) ==
    IF removeDust(sendParam.amountLD) < sendParam.minAmountLD THEN "SlippageExceeded"
    ELSE "OK"

quoteSend(sendParam, _payInLzToken) == [nativeFee |-> price, lzTokenFee |-> 0]

\* this.send{value: feeValue}(sendParam, msgFee, refund): an external call
\* of the token to itself, so inside it msg.sender is the token contract;
\* `funds` is the native balance of the contract at the call
sendError(sendParam, msgFee, feeValue, funds) ==
    IF funds < feeValue THEN "OutOfFunds"
    ELSE IF removeDust(sendParam.amountLD) < sendParam.minAmountLD THEN "SlippageExceeded"
    ELSE IF ledger[SrcOFT] < removeDust(sendParam.amountLD) THEN "ERC20InsufficientBalance"
    ELSE IF feeValue # msgFee.nativeFee THEN "NotEnoughNative"
    ELSE "OK"

\* variant: sendComposed without onlyOwner
sendComposedResult_NoOwnerCheck(sender, _to, _amount, _dstEid, _messageType, _payInLzToken, value) ==
    IF _messageType \notin {CROSS_CHAIN_SEND, BURNT} THEN "AbiDecodeRevert"
    ELSE IF validDestinationError(_dstEid) # "OK" THEN validDestinationError(_dstEid)
    ELSE IF composePayloadError(_messageType) # "OK" THEN composePayloadError(_messageType)
    ELSE LET sendParam == buildSendParam(_to, _amount, _dstEid, _messageType)
             msgFee == quoteSend(sendParam, _payInLzToken)
             feeValue == IF _payInLzToken THEN 0 ELSE msgFee.nativeFee
         IN IF quoteSendError(sendParam) # "OK" THEN quoteSendError(sendParam)
            ELSE sendError(sendParam, msgFee, feeValue, ethSelf + value)

\* the outcome of sendComposed: calldata decoding, onlyOwner,
\* validDestination, the payload, the quote, the send
sendComposedResult(sender, _to, _amount, _dstEid, _messageType, _payInLzToken, value) ==
    IF _messageType \notin {CROSS_CHAIN_SEND, BURNT} THEN "AbiDecodeRevert"
    ELSE IF sender # Owner THEN "OwnableUnauthorizedAccount"
    ELSE IF validDestinationError(_dstEid) # "OK" THEN validDestinationError(_dstEid)
    ELSE IF composePayloadError(_messageType) # "OK" THEN composePayloadError(_messageType)
    ELSE LET sendParam == buildSendParam(_to, _amount, _dstEid, _messageType)
             msgFee == quoteSend(sendParam, _payInLzToken)
             feeValue == IF _payInLzToken THEN 0 ELSE msgFee.nativeFee
         IN IF quoteSendError(sendParam) # "OK" THEN quoteSendError(sendParam)
            ELSE sendError(sendParam, msgFee, feeValue, ethSelf + value)

\* the errors raised before a SendParam is built
BeforeBuild == {"AbiDecodeRevert", "OwnableUnauthorizedAccount", "InvalidEndpointId",
                "NoPeerConfigured", "NoCrossChainManager", "Invalid message type"}

\* sendComposed(_to, _amount, _dstEid, _messageType, _payInLzToken, _extraOptions)
\* with msg.value = value
sendComposed(sender, _to, _amount, _dstEid, _messageType, _payInLzToken, value) ==
    LET res == sendComposedResult(sender, _to, _amount, _dstEid, _messageType, _payInLzToken, value)
        sendParam == buildSendParam(_to, _amount, _dstEid, _messageType)
        feeValue == IF _payInLzToken THEN 0 ELSE price
    IN /\ res = "OK" => ethSelf + value - feeValue \in Fees
       /\ lastResult' = res
       /\ IF res = "OK"
          THEN /\ ledger' = [ledger EXCEPT ![SrcOFT] = @ - removeDust(_amount)]
               /\ ethSelf' = ethSelf + value - feeValue
               /\ inflight' = [stage |-> "sent", request |-> sendParam,
                               amountReceivedLD |-> toLD(toSD(_amount))]
               /\ lastEvents' = << << "OFTSent", _dstEid, SrcOFT, removeDust(_amount) >>,
                                   << "CrossChainSendInitiated", _to, _amount, _dstEid >> >>
          ELSE /\ UNCHANGED << ledger, ethSelf, inflight >>
               /\ lastEvents' = << >>
       /\ sendPre' = SendSnapshot(value, IF res \in BeforeBuild THEN NoRequest ELSE sendParam)
       /\ lastCall' = Call("sendComposed", sender, _to, _dstEid, _messageType, _amount, << >>,
                           _payInLzToken)
       /\ UNCHANGED << peers, crossChainManagers, price, balances >>
       /\ ManagerIdle

\* the outcome of quoteSendComposed: calldata decoding, validDestination,
\* the payload, the quote
quoteSendComposedResult(_to, _amount, _dstEid, _messageType, _payInLzToken) ==
    IF _messageType \notin {CROSS_CHAIN_SEND, BURNT} THEN "AbiDecodeRevert"
    ELSE IF validDestinationError(_dstEid) # "OK" THEN validDestinationError(_dstEid)
    ELSE IF composePayloadError(_messageType) # "OK" THEN composePayloadError(_messageType)
    ELSE quoteSendError(quoteSendParam(_to, _amount, _dstEid, _messageType))

\* quoteSendComposed(..), a view function: it changes nothing
quoteSendComposed(sender, _to, _amount, _dstEid, _messageType, _payInLzToken) ==
    LET res == quoteSendComposedResult(_to, _amount, _dstEid, _messageType, _payInLzToken)
    IN /\ lastResult' = res
       /\ lastEvents' = << >>
       /\ sendPre' = SendSnapshot(0, IF res \in BeforeBuild THEN NoRequest
                                     ELSE quoteSendParam(_to, _amount, _dstEid, _messageType))
       /\ lastCall' = Call("quoteSendComposed", sender, _to, _dstEid, _messageType, _amount,
                           << >>, _payInLzToken)
       /\ UNCHANGED << peers, crossChainManagers, ledger, ethSelf, price, inflight, balances >>
       /\ ManagerIdle

(* ------------------------------ transport ----------------------------- *)
\* the endpoint of chain D1 hands the message to the OFT there, which
\* credits amountReceivedLD to `to` and queues the compose call
lzReceive ==
    /\ inflight.stage = "sent" /\ inflight.request.dstEid = D1
    /\ Minted(balances) + inflight.amountReceivedLD <= MaxSupply
    /\ balances' = [balances EXCEPT ![O1][inflight.request.to] = @ + inflight.amountReceivedLD]
    /\ inflight' = [inflight EXCEPT !.stage = "credited"]
    /\ lastResult' = "OK"
    /\ lastEvents' = << >>
    /\ lastCall' = Call("lzReceive", T1, O1, inflight.request.to, ZeroAddr,
                        inflight.amountReceivedLD, inflight.request.composeMsg, FALSE)
    /\ UNCHANGED << peers, crossChainManagers, ledger, ethSelf, price, sendPre >>
    /\ ManagerIdle

\* the endpoint of chain D1 makes the queued compose call: lzCompose of the
\* manager, from the OFT O1, with the amount credited and the compose
\* message of the request
lzComposeDelivery ==
    /\ inflight.stage = "credited"
    /\ lzCompose(T1, O1, inflight.amountReceivedLD, inflight.request.composeMsg)
    /\ inflight' = [inflight EXCEPT !.stage = "composed"]
    /\ UNCHANGED << peers, crossChainManagers, ledger, ethSelf, price, sendPre >>
    /\ UNCHANGED aside

(* ----------------------- the library on its own ----------------------- *)
\* variant: additionalData is decoded before the type is looked at
getBurntAmountError_DecodeFirst(data) ==
    IF ~DecodeOK(data) THEN "AbiDecodeRevert"
    ELSE IF ~DecodeUintOK(decode(data).additionalData) THEN "AbiDecodeRevert"
    ELSE IF decode(data).messageType # BURNT THEN "ComposeMsg: not a BURNT message"
    ELSE "OK"

\* ComposeMsg.getBurntAmount: the error it reverts with, "OK" when it returns
getBurntAmountError(data) ==
    IF ~DecodeOK(data) THEN "AbiDecodeRevert"
    ELSE IF decode(data).messageType # BURNT THEN "ComposeMsg: not a BURNT message"
    ELSE IF ~DecodeUintOK(decode(data).additionalData) THEN "AbiDecodeRevert"
    ELSE "OK"

\* ComposeMsg.getBurntAmount: the amount it returns
getBurntAmount(data) == DecodeUint(decode(data).additionalData)

\* recipients, additionalData and amounts handed to the encoders
CodecRecipients == {ZeroAddr, Alice}
AuxArgs == { << >>, << 1 >>, Zeros(31) }
BurntAmounts == 0..MaxAmount
\* bytes appended to an encoding, values a byte of it is overwritten with
Extras == { << 0 >>, << 1 >>, Zeros(32) }
ByteValues == {0, 1, 255}

\* no contract is called
ChainIdle ==
    UNCHANGED << initialized, owner, endpoint, trustedOFT, totalProcessed, paused,
                 balances, pre, lastCall, lastResult, lastEvents, held,
                 deliveredSum, replay, sendVars, rotated >>

\* the contracts are not called while the library is exercised
ContractsIdle == ChainIdle /\ UNCHANGED scripts

Encoded(fn, recipient, messageType, additionalData, amount, data) ==
    [how |-> "valid", fn |-> fn, recipient |-> recipient, messageType |-> messageType,
     additionalData |-> additionalData, amount |-> amount, data |-> data,
     op |-> "none", result |-> "OK", out |-> NoData, burnt |-> 0]

callEncode(recipient, messageType, additionalData) ==
    /\ codec' = Encoded("encode", recipient, messageType, additionalData, 0,
                        encode(recipient, messageType, additionalData))
    /\ ContractsIdle

callEncodeCrossChainSend(recipient) ==
    /\ codec' = Encoded("encodeCrossChainSend", recipient, CROSS_CHAIN_SEND, << >>, 0,
                        encodeCrossChainSend(recipient))
    /\ ContractsIdle

callEncodeBurnt(recipient, amount) ==
    /\ codec' = Encoded("encodeBurnt", recipient, BURNT, Word(amount), amount,
                        encodeBurnt(recipient, amount))
    /\ ContractsIdle

\* the bytes of a valid encoding are changed on the way: the last k bytes
\* cut off, bytes appended, one byte overwritten with another value
Tampered(how, data) ==
    [codec EXCEPT !.how = how, !.data = data, !.op = "none", !.result = "OK",
                  !.out = NoData, !.burnt = 0]

truncate(k) ==
    /\ codec.how = "valid"
    /\ codec' = Tampered("truncated", Truncate(codec.data, k))
    /\ ContractsIdle

append(extra) ==
    /\ codec.how = "valid"
    /\ codec' = Tampered("extended", codec.data \o extra)
    /\ ContractsIdle

setByte(i, b) ==
    /\ codec.how = "valid"
    /\ codec.data[i] # b
    /\ codec' = Tampered("byte", [codec.data EXCEPT ![i] = b])
    /\ ContractsIdle

\* ComposeMsg.decode(data) on the bytes at hand
callDecode ==
    /\ codec.how # "none"
    /\ codec' = [codec EXCEPT !.op = "decode",
                              !.result = IF DecodeOK(codec.data) THEN "OK" ELSE "AbiDecodeRevert",
                              !.out = decode(codec.data),
                              !.burnt = 0]
    /\ ContractsIdle

\* ComposeMsg.getBurntAmount(data) on the bytes at hand
callGetBurntAmount ==
    /\ codec.how # "none"
    /\ codec' = [codec EXCEPT !.op = "getBurntAmount",
                              !.result = getBurntAmountError(codec.data),
                              !.out = NoData,
                              !.burnt = IF getBurntAmountError(codec.data) = "OK"
                                        THEN getBurntAmount(codec.data) ELSE 0]
    /\ ContractsIdle

(* --------------------------- deploy scripts --------------------------- *)
\* the scripts do not touch the chain state of the model or the library
ScriptIdle == ChainIdle /\ UNCHANGED codec

\* where run r is: at its start as long as it has not taken a step
pcOf(r) == IF r \in DOMAIN scripts.runs THEN scripts.runs[r].pc ELSE "start"

\* deploy/AlphaOFT.ts: the endpoint address is read from deployments.json,
\* else taken from the external deployment
readEndpoint(r) ==
    /\ r \in OFTRuns /\ pcOf(r) = "start"
    /\ LET endpointAddress == IF scripts.file.lzEndpoint # 0 THEN scripts.file.lzEndpoint
                              ELSE EndpointV2
       IN scripts' = [scripts EXCEPT
              !.runs = @ @@ (r :> [NoLocal EXCEPT !.pc = "read",
                                                  !.endpointAddress = endpointAddress])]
    /\ ScriptIdle

\* deploy/AlphaOFT.ts: deploy(contractName, ..) puts a new AlphaOFT on the
\* chain and saves it in the hardhat-deploy store
deployOFT(r) ==
    /\ r \in OFTRuns /\ pcOf(r) = "read"
    /\ scripts' = [scripts EXCEPT !.deployed = @ + 1,
                                  !.artifact = scripts.deployed + 1,
                                  !.runs[r].address = scripts.deployed + 1,
                                  !.runs[r].pc = "deployed"]
    /\ ScriptIdle

\* deploy/AlphaTokenCrossChainManager.ts: endpoint and trusted OFT are read
\* from deployments.json, else from the hardhat-deploy store; without an
\* AlphaOFT in either the script throws
readConfig(r) ==
    /\ r \in ManagerRuns /\ pcOf(r) = "start"
    /\ LET endpointAddress == IF scripts.file.lzEndpoint # 0 THEN scripts.file.lzEndpoint
                              ELSE EndpointV2
           trustedOFTAddress == IF scripts.file.tokenAddress # 0 THEN scripts.file.tokenAddress
                                ELSE scripts.artifact
       IN scripts' = [scripts EXCEPT
              !.runs = @ @@ (r :> [NoLocal EXCEPT
                  !.pc = IF trustedOFTAddress = 0 THEN "failed" ELSE "read",
                  !.endpointAddress = endpointAddress,
                  !.trustedOFTAddress = trustedOFTAddress])]
    /\ ScriptIdle

\* deploy/AlphaTokenCrossChainManager.ts: implementation and proxy are
\* deployed; the proxy is the contract with the new address
deployManager(r) ==
    /\ r \in ManagerRuns /\ pcOf(r) = "read"
    /\ scripts' = [scripts EXCEPT !.deployed = @ + 1,
                                  !.runs[r].address = scripts.deployed + 1,
                                  !.runs[r].pc = "deployed"]
    /\ ScriptIdle

\* acquireLock: the lock file is created with flag 'wx', which fails when
\* it exists; the run then sleeps and tries again
acquireLock(r) ==
    /\ pcOf(r) = "deployed"
    /\ scripts.lock = 0
    /\ scripts' = [scripts EXCEPT !.lock = r, !.runs[r].pc = "locked"]
    /\ ScriptIdle

\* acquireLock returns false after the timeout: the update is skipped
giveUp(r) ==
    /\ pcOf(r) = "deployed"
    /\ scripts.lock # 0
    /\ scripts' = [scripts EXCEPT !.runs[r].pc = "done"]
    /\ ScriptIdle

\* under the lock: deployments.json is read again
reread(r) ==
    /\ pcOf(r) = "locked"
    /\ scripts' = [scripts EXCEPT !.runs[r].latest = scripts.file, !.runs[r].pc = "merged"]
    /\ ScriptIdle

\* the entry of the network as the run writes it: the fields of the entry
\* read under the lock, overwritten with the fields of the script
merged(r) ==
    LET my == scripts.runs[r] IN
    IF r \in OFTRuns
    THEN [my.latest EXCEPT !.tokenAddress = my.address,
                           !.lzEndpoint = my.endpointAddress]
    ELSE [my.latest EXCEPT !.crossChainManagerAddress = my.address,
                           !.lzEndpoint = my.endpointAddress,
                           !.tokenAddress = my.trustedOFTAddress]

\* under the lock: the new content is written to a temporary file, which
\* is renamed to deployments.json
writeFile(r) ==
    /\ pcOf(r) = "merged"
    /\ scripts' = [scripts EXCEPT
          !.file = merged(r),
          !.lastWrite = [by |-> r, before |-> scripts.file],
          !.runs[r].pc = "written"]
    /\ ScriptIdle

\* finally { releaseLock() }: the lock file is removed
releaseLock(r) ==
    /\ pcOf(r) = "written"
    /\ scripts' = [scripts EXCEPT !.lock = 0, !.runs[r].pc = "done"]
    /\ ScriptIdle

(* ---------------------------- specification --------------------------- *)
Next ==
    \/ \E e \in InitEndpointArgs, o \in InitOFTArgs, w \in OwnerArgs :
          initialize(Owner, e, o, w) /\ UNCHANGED << sendVars, aside >>
    \/ \E s \in AdminCallers, t \in MintedTokens : mint(t, s, This, 1) /\ UNCHANGED << sendVars, aside >>
    \/ \E s \in Transports, o \in Tokens, a \in Amounts, m \in Payloads :
          lzCompose(s, o, a, m) /\ UNCHANGED << sendVars, aside >>
    \/ \E s \in AdminCallers, e \in EndpointArgs : updateEndpoint(s, e) /\ UNCHANGED << sendVars, aside >>
    \/ \E s \in AdminCallers, o \in OFTArgs : updateTrustedOFT(s, o) /\ UNCHANGED << sendVars, aside >>
    \/ \E s \in AdminCallers, p \in BOOLEAN : setPaused(s, p) /\ UNCHANGED << sendVars, aside >>
    \/ \E s \in AdminCallers, t \in Tokens, to \in WithdrawTo, a \in Amounts :
          emergencyWithdraw(s, t, to, a) /\ UNCHANGED << sendVars, aside >>
    \/ \E s \in AdminCallers : authorizeUpgrade(s) /\ UNCHANGED << sendVars, aside >>

Spec == Init /\ [][Next]_vars

\* the calls of the source AlphaOFT; inflight is the request last submitted
NextSend ==
    \/ \E s \in AdminCallers, q \in PeerArgs : setPeer(s, D1, q)
    \/ \E s \in AdminCallers, e \in EidArgs, m \in ManagerArgs : setCrossChainManager(s, e, m)
    \/ \E s \in AdminCallers, h \in SrcHolders : mintSource(s, h, 1)
    \/ \E a \in Amounts : transferSource(Owner, SrcOFT, a)
    \/ \E s \in AdminCallers, r \in Recipients, a \in Amounts, e \in EidArgs,
          t \in MessageTypeArgs, z \in BOOLEAN, v \in Fees :
          sendComposed(s, r, a, e, t, z, v)
    \/ \E r \in Recipients, a \in Amounts, e \in EidArgs, t \in MessageTypeArgs :
          quoteSendComposed(T2, r, a, e, t, FALSE)

SpecSend == Init /\ [][NextSend]_vars

\* a composed transfer from end to end: the owner configures and funds the
\* source AlphaOFT and sends, the transport carries one message at a time
\* to chain D1, the manager there is initialized, paused and unpaused
NextFlow ==
    \/ initialize(Owner, T1, O1, Owner) /\ UNCHANGED << sendVars, aside >>
    \/ \E p \in BOOLEAN : setPaused(Owner, p) /\ UNCHANGED << sendVars, aside >>
    \/ setPeer(Owner, D1, PeerOFT)
    \/ setCrossChainManager(Owner, D1, This)
    \/ mintSource(Owner, SrcOFT, 1)
    \/ \E r \in Recipients, a \in Amounts, t \in {CROSS_CHAIN_SEND, BURNT} :
          /\ inflight.stage \in {"none", "composed"}
          /\ sendComposed(Owner, r, a, D1, t, FALSE, 1)
    \/ lzReceive
    \/ lzComposeDelivery

SpecFlow == Init /\ [][NextFlow]_vars

\* the fee of a send: the owner sends to a configured destination with
\* more, less or exactly the native fee the endpoint quotes, the endpoint
\* changes its price, the transport takes the messages
NextFee ==
    \/ setPeer(Owner, D1, PeerOFT)
    \/ setCrossChainManager(Owner, D1, This)
    \/ mintSource(Owner, SrcOFT, 1)
    \/ \E p \in Fees : setPrice(p)
    \/ \E a \in Amounts, z \in BOOLEAN, v \in Fees :
          sendComposed(Owner, Alice, a, D1, CROSS_CHAIN_SEND, z, v)
    \/ \E a \in Amounts, z \in BOOLEAN :
          quoteSendComposed(T2, Alice, a, D1, CROSS_CHAIN_SEND, z)
    \/ lzReceive

SpecFee == Init /\ [][NextFee]_vars

\* runs of the two deploy scripts at the same time on one network
NextDeploy ==
    \/ \E r \in Runs : readEndpoint(r)
    \/ \E r \in Runs : deployOFT(r)
    \/ \E r \in Runs : readConfig(r)
    \/ \E r \in Runs : deployManager(r)
    \/ \E r \in Runs : acquireLock(r)
    \/ \E r \in Runs : giveUp(r)
    \/ \E r \in Runs : reread(r)
    \/ \E r \in Runs : writeFile(r)
    \/ \E r \in Runs : releaseLock(r)

SpecDeploy == Init /\ [][NextDeploy]_vars

\* the owner replaces the trusted endpoint and the trusted OFT of a manager
\* that holds both tokens, and messages of the old and of the new one are
\* delivered; `rotated` follows how close the last replacement is
RotatePayloads == { encodeCrossChainSend(Alice), encodeBurnt(Alice, 2) }

Replaced(what, old, new) ==
    IF lastResult' = "OK" /\ old # ZeroAddr /\ new # old
    THEN [step |-> 1, what |-> what, old |-> old, new |-> new]
    ELSE NoRotation

NextRotate ==
    \/ /\ initialize(Owner, T1, O1, Owner)
       /\ rotated' = NoRotation
       /\ UNCHANGED << sendVars, codec, scripts >>
    \/ \E t \in Tokens :
          /\ mint(t, Owner, This, 1)
          /\ rotated' = NoRotation
          /\ UNCHANGED << sendVars, codec, scripts >>
    \/ \E e \in Transports :
          /\ updateEndpoint(Owner, e)
          /\ rotated' = Replaced("endpoint", endpoint, e)
          /\ UNCHANGED << sendVars, codec, scripts >>
    \/ \E o \in Tokens :
          /\ updateTrustedOFT(Owner, o)
          /\ rotated' = Replaced("trustedOFT", trustedOFT, o)
          /\ UNCHANGED << sendVars, codec, scripts >>
    \/ \E s \in Transports, o \in Tokens, a \in Amounts, m \in RotatePayloads :
          /\ lzCompose(s, o, a, m)
          /\ rotated' = IF rotated.step = 1 THEN [rotated EXCEPT !.step = 2] ELSE NoRotation
          /\ UNCHANGED << sendVars, codec, scripts >>

SpecRotate == Init /\ [][NextRotate]_vars

\* the ComposeMsg library on its own: payloads are encoded, their bytes
\* tampered with, and the decoding functions applied
NextCodec ==
    \/ \E r \in CodecRecipients, t \in {CROSS_CHAIN_SEND, BURNT}, x \in AuxArgs :
          callEncode(r, t, x)
    \/ \E r \in CodecRecipients : callEncodeCrossChainSend(r)
    \/ \E r \in CodecRecipients, a \in BurntAmounts : callEncodeBurnt(r, a)
    \/ \E k \in 1..(IF codec.how = "valid" THEN Len(codec.data) ELSE 0) : truncate(k)
    \/ \E x \in Extras : append(x)
    \/ \E i \in 1..(IF codec.how = "valid" THEN Len(codec.data) ELSE 0), b \in ByteValues :
          setByte(i, b)
    \/ callDecode
    \/ callGetBurntAmount

SpecCodec == Init /\ [][NextCodec]_vars

TypeOK ==
    /\ initialized \in BOOLEAN
    /\ paused \in BOOLEAN
    /\ totalProcessed \in 0..MaxTotal
    /\ deliveredSum \in 0..MaxTotal
    /\ replay.on \in BOOLEAN
    /\ \A h \in SrcHolders : ledger[h] \in 0..MaxSupply
    /\ ethSelf \in Fees
    /\ price \in Fees
    /\ inflight.stage \in {"none", "sent", "credited", "composed"}
    /\ \A t \in Tokens : \A h \in Holders : balances[t][h] \in 0..MaxSupply
    /\ codec.how \in {"none", "valid", "truncated", "extended", "byte"}
    /\ codec.op \in {"none", "decode", "getBurntAmount"}
    /\ rotated.step \in 0..2
    /\ scripts.lock \in {0} \cup Runs
    /\ scripts.deployed \in 0..Cardinality(Runs)
    /\ \A r \in Runs : pcOf(r) \in {"start", "read", "deployed", "locked", "merged",
                                    "written", "done", "failed"}

(* ------------------------- the last call, named ----------------------- *)
Delivered == lastCall.op = "lzCompose"
msgSender == lastCall.sender
msgOApp == lastCall.a1
msgAmount == lastCall.amount
msgPayload == lastCall.data

\* a payload the handler cannot decode: not the tuple (address, MessageType,
\* bytes), or a BURNT payload whose additional data is not a uint256
Undecodable(m) ==
    \/ ~Decoded[m].ok
    \/ Decoded[m].messageType = BURNT /\ ~DecodeUintOK(Decoded[m].additionalData)

\* a payload with a nonzero recipient that the handler decodes
ValidPayload(m) == ~Undecodable(m) /\ Decoded[m].recipient # ZeroAddr

\* the ledgers after `value` of `token` moved from the manager to `to`
Moved(bal, token, to, value) ==
    [t \in Tokens |-> [h \in Holders |->
        bal[t][h] - (IF t = token /\ h = This THEN value ELSE 0)
                  + (IF t = token /\ h = to THEN value ELSE 0)]]

\* the last call left the storage and the balances as they were
Unchanged == pre = Snapshot

(* -------------------------------- claims ------------------------------ *)
\* C1: not paused, msg.sender is not the endpoint: lzCompose fails with
\* UnauthorizedSender whatever the payload, and neither totalProcessed nor
\* any balance changes.
C1_UnauthorizedSender ==
    (Delivered /\ ~pre.paused /\ msgSender # pre.endpoint)
      => /\ lastResult = "UnauthorizedSender"
         /\ totalProcessed = pre.totalProcessed
         /\ balances = pre.balances

\* an otherwise valid, funded delivery was made by another caller than the endpoint
C1_Witness ==
    /\ Delivered /\ pre.initialized /\ ~pre.paused
    /\ msgSender # pre.endpoint /\ msgOApp = pre.trustedOFT
    /\ ValidPayload(msgPayload)
    /\ pre.balances[pre.trustedOFT][This] >= msgAmount
    /\ lastResult = "UnauthorizedSender"

\* C2: not paused, sent by the endpoint, _oApp is not the trusted OFT:
\* lzCompose fails with UntrustedOApp (the spec's UntrustedOrigin) and no
\* token moves, whatever the payload.
C2_UntrustedOrigin ==
    (Delivered /\ ~pre.paused /\ msgSender = pre.endpoint /\ msgOApp # pre.trustedOFT)
      => /\ lastResult = "UntrustedOApp"
         /\ balances = pre.balances

\* an otherwise valid, funded delivery by the endpoint named another origin
C2_Witness ==
    /\ Delivered /\ pre.initialized /\ ~pre.paused
    /\ msgSender = pre.endpoint /\ msgOApp # pre.trustedOFT
    /\ ValidPayload(msgPayload)
    /\ pre.balances[pre.trustedOFT][This] >= msgAmount
    /\ lastResult = "UntrustedOApp"

\* C3: the sender check comes first, the origin check second, both before
\* the payload is decoded: wrong sender and wrong origin give
\* UnauthorizedSender; a wrong sender or origin with an undecodable payload
\* gives the authentication error, never the decoding failure.
C3_CheckOrder ==
    (Delivered /\ ~pre.paused)
      => /\ (msgSender # pre.endpoint /\ msgOApp # pre.trustedOFT)
              => lastResult = "UnauthorizedSender"
         /\ ((msgSender # pre.endpoint \/ msgOApp # pre.trustedOFT) /\ Undecodable(msgPayload))
              => lastResult \in {"UnauthorizedSender", "UntrustedOApp"}
         /\ lastResult \in {"AbiDecodeRevert", "UnsupportedMessageType"}
              => (msgSender = pre.endpoint /\ msgOApp = pre.trustedOFT)

\* wrong sender, wrong origin and an undecodable payload at once
C3_Witness ==
    /\ Delivered /\ pre.initialized /\ ~pre.paused
    /\ msgSender # pre.endpoint /\ msgOApp # pre.trustedOFT
    /\ Undecodable(msgPayload)
    /\ lastResult = "UnauthorizedSender"

\* C4: while paused every lzCompose fails with ContractPaused, whatever the
\* sender, origin and payload, and nothing of the storage or the balances
\* changes.
C4_PausedRejectsAll ==
    (Delivered /\ pre.paused)
      => /\ lastResult = "ContractPaused"
         /\ Unchanged

\* a delivery that would have been paid out was made while paused
C4_Witness ==
    /\ Delivered /\ pre.paused
    /\ msgSender = pre.endpoint /\ msgOApp = pre.trustedOFT
    /\ ValidPayload(msgPayload)
    /\ pre.balances[pre.trustedOFT][This] >= msgAmount
    /\ lastResult = "ContractPaused"

\* C5: setPaused moves no token and leaves totalProcessed alone (nothing was
\* buffered), and right after the owner's setPaused(false) the delivery that
\* was rejected while paused, delivered again unchanged, succeeds and adds
\* exactly its amountLD to totalProcessed, provided it is a valid delivery
\* (endpoint, trusted OFT, decodable payload, funds held).
C5_UnpauseThenRedeliver ==
    /\ lastCall.op = "setPaused"
         => /\ balances = pre.balances
            /\ totalProcessed = pre.totalProcessed
            /\ \A i \in 1..Len(lastEvents) : lastEvents[i][1] # "TokensProcessed"
    /\ ( /\ held.phase = 3
         /\ msgSender = pre.endpoint /\ msgOApp = pre.trustedOFT
         /\ ValidPayload(msgPayload)
         /\ pre.balances[pre.trustedOFT][This] >= msgAmount )
         => /\ lastResult = "OK"
            /\ totalProcessed = pre.totalProcessed + msgAmount

\* the rejected delivery went through right after the unpausing
C5_Witness ==
    /\ held.phase = 3 /\ Delivered
    /\ held.composeMsg = msgPayload /\ held.amountLD = msgAmount
    /\ msgAmount > 0
    /\ lastResult = "OK"
    /\ totalProcessed = pre.totalProcessed + msgAmount

\* C6: a successful lzCompose of a CROSS_CHAIN_SEND payload happens only
\* unpaused, from the endpoint and the trusted OFT; it moves exactly
\* amountLD of the trusted OFT from the manager to the recipient, adds
\* amountLD to totalProcessed and emits TokensProcessed(recipient, amountLD,
\* CROSS_CHAIN_SEND).
C6_CrossChainSend ==
    (Delivered /\ lastResult = "OK" /\ Decoded[msgPayload].messageType = CROSS_CHAIN_SEND)
      => /\ ~pre.paused /\ msgSender = pre.endpoint /\ msgOApp = pre.trustedOFT
         /\ Decoded[msgPayload].ok
         /\ balances = Moved(pre.balances, pre.trustedOFT, Decoded[msgPayload].recipient, msgAmount)
         /\ totalProcessed = pre.totalProcessed + msgAmount
         /\ lastEvents = << << "TokensProcessed", Decoded[msgPayload].recipient,
                              msgAmount, CROSS_CHAIN_SEND >> >>

\* a CROSS_CHAIN_SEND delivery paid the recipient
C6_Witness ==
    /\ Delivered /\ lastResult = "OK"
    /\ Decoded[msgPayload].messageType = CROSS_CHAIN_SEND
    /\ msgAmount > 0
    /\ balances[trustedOFT][Decoded[msgPayload].recipient]
         = pre.balances[trustedOFT][Decoded[msgPayload].recipient] + msgAmount
    /\ totalProcessed = pre.totalProcessed + msgAmount

\* C7: a successful lzCompose of a BURNT payload moves exactly amountLD to
\* the recipient and adds amountLD to totalProcessed whatever the burnt
\* amount in the additional data is.
C7_BurntPaysDelivered ==
    (Delivered /\ lastResult = "OK" /\ Decoded[msgPayload].messageType = BURNT)
      => /\ balances = Moved(pre.balances, pre.trustedOFT, Decoded[msgPayload].recipient, msgAmount)
         /\ totalProcessed = pre.totalProcessed + msgAmount

\* a BURNT delivery whose burnt amount differs from amountLD paid the recipient
C7_Witness ==
    /\ Delivered /\ lastResult = "OK"
    /\ Decoded[msgPayload].messageType = BURNT
    /\ DecodeUint(Decoded[msgPayload].additionalData) # msgAmount
    /\ msgAmount > 0
    /\ balances[trustedOFT][Decoded[msgPayload].recipient]
         = pre.balances[trustedOFT][Decoded[msgPayload].recipient] + msgAmount

\* the messageType word of a payload that has one
RawTag(m) == WordToNat(WordAt(m, 32))

\* C8: an authenticated, unpaused lzCompose whose payload has a messageType
\* outside {0, 1} fails with UnsupportedMessageType.
C8_UnsupportedMessageType ==
    (Delivered /\ ~pre.paused /\ msgSender = pre.endpoint /\ msgOApp = pre.trustedOFT
       /\ Len(msgPayload) >= 64 /\ RawTag(msgPayload) \notin {CROSS_CHAIN_SEND, BURNT})
      => lastResult = "UnsupportedMessageType"

C10_FailureAtomic ==
    Delivered
      => /\ ( \/ pre.paused
              \/ msgSender # pre.endpoint
              \/ msgOApp # pre.trustedOFT
              \/ Undecodable(msgPayload)
              \/ Decoded[msgPayload].recipient = ZeroAddr
              \/ pre.balances[pre.trustedOFT][This] < msgAmount )
              => (lastResult # "OK" /\ Unchanged /\ lastEvents = << >>)
         /\ lastResult # "OK" => (Unchanged /\ lastEvents = << >>)

\* an authenticated, decodable delivery failed in the token transfer because
\* the manager held less than amountLD
C10_Witness ==
    /\ Delivered /\ pre.initialized /\ ~pre.paused
    /\ msgSender = pre.endpoint /\ msgOApp = pre.trustedOFT
    /\ ValidPayload(msgPayload)
    /\ pre.balances[pre.trustedOFT][This] > 0
    /\ pre.balances[pre.trustedOFT][This] < msgAmount
    /\ lastResult = "ERC20InsufficientBalance"

\* the owner-only operations of the manager
AdminOps == {"updateEndpoint", "updateTrustedOFT", "setPaused", "emergencyWithdraw",
             "authorizeUpgrade"}

\* C11: updateEndpoint, updateTrustedOFT, setPaused, emergencyWithdraw and
\* the upgrade authorization succeed only when msg.sender is the current
\* owner; called by anyone else they fail with OwnableUnauthorizedAccount
\* and leave paused, trustedOFT, endpoint, totalProcessed and every balance
\* as they were.
C11_OwnerOnly ==
    lastCall.op \in AdminOps
      => /\ lastResult = "OK" => msgSender = pre.owner
         /\ msgSender # pre.owner
              => /\ lastResult = "OwnableUnauthorizedAccount"
                 /\ paused = pre.paused
                 /\ trustedOFT = pre.trustedOFT
                 /\ endpoint = pre.endpoint
                 /\ totalProcessed = pre.totalProcessed
                 /\ balances = pre.balances

\* another account than the owner asked for a withdrawal that the owner
\* would have obtained
C11_Witness ==
    /\ lastCall.op = "emergencyWithdraw" /\ pre.initialized
    /\ msgSender # pre.owner
    /\ lastCall.a2 # ZeroAddr /\ lastCall.amount > 0
    /\ pre.balances[lastCall.a1][This] >= lastCall.amount
    /\ lastResult = "OwnableUnauthorizedAccount"

\* C12: every successful updateEndpoint, updateTrustedOFT, setPaused and
\* emergencyWithdraw emits an event of the manager that records it
\* (lastEvents is the manager's own log; the Transfer event of a token
\* belongs to the token's log).
C12_AdminEmitsEvent ==
    (lastCall.op \in {"updateEndpoint", "updateTrustedOFT", "setPaused", "emergencyWithdraw"}
       /\ lastResult = "OK")
      => Len(lastEvents) >= 1

\* C13: once initialized, totalProcessed is the sum of amountLD over the
\* lzCompose calls that succeeded; no call lowers it, and the owner-only
\* operations and a failed lzCompose leave it as it was.
C13_TotalIsSumOfDelivered ==
    /\ initialized => totalProcessed = deliveredSum
    /\ totalProcessed >= pre.totalProcessed
    /\ (lastCall.op \in AdminOps \/ (Delivered /\ lastResult # "OK"))
         => totalProcessed = pre.totalProcessed

\* the owner changed the trusted OFT after tokens had been processed
C13_Witness ==
    /\ lastCall.op = "updateTrustedOFT" /\ lastResult = "OK"
    /\ trustedOFT # pre.trustedOFT
    /\ pre.totalProcessed > 0
    /\ totalProcessed = deliveredSum

\* C14: a successful initialize leaves the manager not paused, with
\* totalProcessed 0 and with endpoint and trustedOFT (and owner) as
\* supplied; on a fresh instance a zero _endpoint, _trustedOFT or _owner
\* makes it fail with ZeroAddress and set nothing; on an initialized
\* instance it fails and sets nothing, so it takes effect at most once.
C14_Initialize ==
    lastCall.op = "initialize"
      => /\ lastResult = "OK"
              => /\ ~pre.initialized /\ initialized
                 /\ ~paused /\ totalProcessed = 0
                 /\ endpoint = lastCall.a1 /\ trustedOFT = lastCall.a2
                 /\ owner = lastCall.a3
         /\ (~pre.initialized /\ ZeroAddr \in {lastCall.a1, lastCall.a2, lastCall.a3})
              => (lastResult = "ZeroAddress" /\ Unchanged)
         /\ pre.initialized => (lastResult = "InvalidInitialization" /\ Unchanged)

\* initialize was called with good arguments on an instance that was
\* initialized, had processed tokens and was paused
C14_Witness ==
    /\ lastCall.op = "initialize" /\ pre.initialized
    /\ ZeroAddr \notin {lastCall.a1, lastCall.a2, lastCall.a3}
    /\ pre.totalProcessed > 0 /\ pre.paused
    /\ lastResult = "InvalidInitialization"

\* C15: nothing of an envelope is remembered: the same valid delivery made
\* twice in a row from the endpoint and the trusted OFT, not paused, with
\* the manager holding twice amountLD, succeeds both times, pays the
\* recipient twice amountLD and adds twice amountLD to totalProcessed.
C15_ReplayPaysTwice ==
    ( /\ replay.on /\ Delivered
      /\ ~replay.before.paused /\ ~pre.paused
      /\ msgSender = pre.endpoint /\ msgOApp = pre.trustedOFT
      /\ ValidPayload(msgPayload)
      /\ replay.before.balances[pre.trustedOFT][This] >= 2 * msgAmount )
      => /\ replay.result = "OK" /\ lastResult = "OK"
         /\ balances[pre.trustedOFT][Decoded[msgPayload].recipient]
              = replay.before.balances[pre.trustedOFT][Decoded[msgPayload].recipient]
                  + 2 * msgAmount
         /\ totalProcessed = replay.before.totalProcessed + 2 * msgAmount

\* the same delivery was made twice in a row and paid twice
C15_Witness ==
    /\ replay.on /\ Delivered /\ ~pre.paused
    /\ msgSender = pre.endpoint /\ msgOApp = pre.trustedOFT
    /\ ValidPayload(msgPayload) /\ msgAmount > 0
    /\ replay.before.balances[pre.trustedOFT][This] >= 2 * msgAmount
    /\ replay.result = "OK" /\ lastResult = "OK"
    /\ totalProcessed = replay.before.totalProcessed + 2 * msgAmount

(* --------------------- claims on the sending side --------------------- *)
\* the last sender-side call, named
Sent == lastCall.op = "sendComposed"
Quoted == lastCall.op = "quoteSendComposed"
sentTo == lastCall.a1
sentEid == lastCall.a2
sentType == lastCall.a3
sentAmount == lastCall.amount

\* the last call left the source chain as it was and submitted nothing
NothingSent ==
    /\ ledger = sendPre.ledger
    /\ ethSelf = sendPre.ethSelf
    /\ inflight = sendPre.inflight
    /\ lastEvents = << >>

\* C16: the request of the owner's sendComposed(R, amount, D1,
\* CROSS_CHAIN_SEND), with peer and manager registered, goes to the manager
\* and carries the payload (R, CROSS_CHAIN_SEND, empty); when the endpoint
\* delivers it from the trusted OFT to the manager, not paused, with
\* amountLD = amount, R's balance and totalProcessed both rise by exactly
\* amount (R an account, not the zero address).
C16_EndToEnd ==
    ( /\ Delivered /\ inflight.stage = "composed"
      /\ inflight.request.messageType = CROSS_CHAIN_SEND
      /\ inflight.request.recipient # ZeroAddr
      /\ ~pre.paused /\ msgSender = pre.endpoint /\ msgOApp = pre.trustedOFT )
      => /\ inflight.request.to = This
         /\ msgPayload = inflight.request.composeMsg
         /\ Decoded[msgPayload] = [ok |-> TRUE, recipient |-> inflight.request.recipient,
                                   messageType |-> CROSS_CHAIN_SEND, additionalData |-> << >>]
         /\ msgAmount = inflight.request.amountLD
         /\ lastResult = "OK"
         /\ balances[O1][inflight.request.recipient]
              = pre.balances[O1][inflight.request.recipient] + inflight.request.amountLD
         /\ totalProcessed = pre.totalProcessed + inflight.request.amountLD

\* a CROSS_CHAIN_SEND for Alice went from sendComposed to her balance
C16_Witness ==
    /\ Delivered /\ inflight.stage = "composed"
    /\ inflight.request.messageType = CROSS_CHAIN_SEND
    /\ inflight.request.recipient = Alice
    /\ inflight.request.amountLD > 0
    /\ lastResult = "OK"
    /\ balances[O1][Alice] = pre.balances[O1][Alice] + inflight.request.amountLD

\* C17: a successful sendComposed takes exactly _amount of the token from
\* its caller, submits the request and then emits one
\* CrossChainSendInitiated(_to, _amount, _dstEid); a failed one emits none.
C17_DebitsCaller ==
    Sent
      => /\ lastResult = "OK"
              => /\ ledger[msgSender] = sendPre.ledger[msgSender] - sentAmount
                 /\ inflight.stage = "sent" /\ inflight.request = sendPre.request
                 /\ lastEvents[Len(lastEvents)]
                      = << "CrossChainSendInitiated", sentTo, sentAmount, sentEid >>
         /\ lastResult # "OK" => lastEvents = << >>

\* C18: sendComposed succeeds only for the owner; called by anyone else it
\* fails, with OwnableUnauthorizedAccount whenever the arguments are values
\* of their types, before a SendParam is built, a fee quoted, a token
\* debited or an event emitted.
C18_SendOwnerOnly ==
    Sent
      => /\ lastResult = "OK" => msgSender = Owner
         /\ msgSender # Owner
              => /\ lastResult # "OK"
                 /\ sentType \in {CROSS_CHAIN_SEND, BURNT}
                      => lastResult = "OwnableUnauthorizedAccount"
                 /\ ~sendPre.request.built
                 /\ NothingSent

\* another account than the owner made a call that the owner would have
\* got through
C18_Witness ==
    /\ Sent /\ msgSender # Owner
    /\ sentType = CROSS_CHAIN_SEND /\ sentEid = D1
    /\ sendPre.peers[D1] # ZeroAddr /\ sendPre.crossChainManagers[D1] # ZeroAddr
    /\ removeDust(sentAmount) = sentAmount
    /\ sendPre.ledger[SrcOFT] >= sentAmount
    /\ sendPre.value = price /\ ~lastCall.flag
    /\ lastResult = "OwnableUnauthorizedAccount"

\* C19: sendComposed (called by the owner) and quoteSendComposed reject a
\* bad destination before a SendParam is built: _dstEid 0 fails with
\* InvalidEndpointId, no peer for _dstEid fails with NoPeerConfigured (the
\* spec's InvalidDestination) whether or not a manager is registered, a
\* peer but no manager fails with NoCrossChainManager (the spec's
\* NoManagerRegistered); nothing is debited or submitted.
C19_InvalidDestination ==
    ( /\ (Sent /\ msgSender = Owner) \/ Quoted
      /\ sentType \in {CROSS_CHAIN_SEND, BURNT} )
      => /\ sentEid = 0 => lastResult = "InvalidEndpointId"
         /\ (sentEid # 0 /\ sendPre.peers[sentEid] = ZeroAddr)
              => lastResult = "NoPeerConfigured"
         /\ (sentEid # 0 /\ sendPre.peers[sentEid] # ZeroAddr
               /\ sendPre.crossChainManagers[sentEid] = ZeroAddr)
              => lastResult = "NoCrossChainManager"
         /\ ( \/ sentEid = 0
              \/ sendPre.peers[sentEid] = ZeroAddr
              \/ sendPre.crossChainManagers[sentEid] = ZeroAddr )
              => (~sendPre.request.built /\ NothingSent)

\* the owner sent to a destination with a manager registered but no peer,
\* with the tokens in place
C19_Witness ==
    /\ Sent /\ msgSender = Owner
    /\ sentType = CROSS_CHAIN_SEND /\ sentEid = D1
    /\ sendPre.peers[D1] = ZeroAddr /\ sendPre.crossChainManagers[D1] # ZeroAddr
    /\ removeDust(sentAmount) = sentAmount
    /\ sendPre.ledger[SrcOFT] >= sentAmount
    /\ lastResult = "NoPeerConfigured"

\* C20: the SendParam of sendComposed carries ComposeMsg's encoding of
\* (_to, CROSS_CHAIN_SEND, empty) for CROSS_CHAIN_SEND and of (_to, BURNT,
\* abi.encode(_amount)) for BURNT, which decode back to these; with any
\* other _messageType the call fails and nothing is sent.
C20_PayloadByType ==
    Sent
      => /\ (sendPre.request.built /\ sentType = CROSS_CHAIN_SEND)
              => /\ sendPre.request.composeMsg = encode(sentTo, CROSS_CHAIN_SEND, << >>)
                 /\ Decoded[sendPre.request.composeMsg]
                      = [ok |-> TRUE, recipient |-> sentTo, messageType |-> CROSS_CHAIN_SEND,
                         additionalData |-> << >>]
         /\ (sendPre.request.built /\ sentType = BURNT)
              => /\ sendPre.request.composeMsg = encode(sentTo, BURNT, Word(sentAmount))
                 /\ Decoded[sendPre.request.composeMsg].ok
                 /\ Decoded[sendPre.request.composeMsg].recipient = sentTo
                 /\ Decoded[sendPre.request.composeMsg].messageType = BURNT
                 /\ DecodeUint(Decoded[sendPre.request.composeMsg].additionalData) = sentAmount
         /\ lastResult = "OK" => (sendPre.request.built /\ inflight.request = sendPre.request)
         /\ sentType \notin {CROSS_CHAIN_SEND, BURNT}
              => (lastResult # "OK" /\ ~sendPre.request.built /\ NothingSent)

\* a BURNT send went out with the amount of the call in its payload
C20_Witness ==
    /\ Sent /\ lastResult = "OK" /\ sentType = BURNT /\ sentAmount > 0
    /\ inflight.stage = "sent"
    /\ DecodeUint(Decoded[inflight.request.composeMsg].additionalData) = sentAmount

\* C21: when the caller of sendComposed supplies less than the native fee
\* quoted (msg.value below it, fee not paid in the LZ token), the call fails,
\* no token is debited and nothing is submitted; so no send goes through
\* with less than the quoted fee paid out of the caller's funds.
C21_InsufficientFee ==
    (Sent /\ ~lastCall.flag /\ sendPre.value < price)
      => (lastResult # "OK" /\ NothingSent)

\* C22: the codec is lossless.  decode(encodeBurnt(r, a)) has recipient r and
\* type BURNT and getBurntAmount(encodeBurnt(r, a)) returns a;
\* decode(encodeCrossChainSend(r)) has recipient r, type CROSS_CHAIN_SEND
\* and empty additionalData.
C22_RoundTrip ==
    /\ (codec.how = "valid" /\ codec.fn = "encodeBurnt" /\ codec.op = "decode")
         => /\ codec.result = "OK" /\ codec.out.ok
            /\ codec.out.recipient = codec.recipient
            /\ codec.out.messageType = BURNT
    /\ (codec.how = "valid" /\ codec.fn = "encodeBurnt" /\ codec.op = "getBurntAmount")
         => (codec.result = "OK" /\ codec.burnt = codec.amount)
    /\ (codec.how = "valid" /\ codec.fn = "encodeCrossChainSend" /\ codec.op = "decode")
         => /\ codec.result = "OK" /\ codec.out.ok
            /\ codec.out.recipient = codec.recipient
            /\ codec.out.messageType = CROSS_CHAIN_SEND
            /\ codec.out.additionalData = << >>

C22_Witness ==
    /\ codec.how = "valid" /\ codec.fn = "encodeBurnt" /\ codec.op = "getBurntAmount"
    /\ codec.recipient = Alice /\ codec.amount = MaxAmount
    /\ codec.result = "OK" /\ codec.burnt = MaxAmount

\* C23: getBurntAmount fails with the wrong-type error ("ComposeMsg: not a
\* BURNT message") on encodeCrossChainSend(r) for every r, and on every
\* well-formed payload whose type is not BURNT, whatever its additionalData.
C23_WrongMessageType ==
    /\ (codec.how = "valid" /\ codec.fn = "encodeCrossChainSend" /\ codec.op = "getBurntAmount")
         => codec.result = "ComposeMsg: not a BURNT message"
    /\ (codec.op = "getBurntAmount" /\ DecodeOK(codec.data)
           /\ decode(codec.data).messageType # BURNT)
         => codec.result = "ComposeMsg: not a BURNT message"

C23_Witness ==
    /\ codec.how = "valid" /\ codec.fn = "encode" /\ codec.op = "getBurntAmount"
    /\ codec.messageType = CROSS_CHAIN_SEND /\ codec.additionalData = << 1 >>
    /\ codec.result = "ComposeMsg: not a BURNT message"

\* C24: decode rejects every byte string obtained from a valid encoding by
\* cutting bytes off its end or by appending bytes to it.
C24_RejectsResized ==
    (codec.op = "decode" /\ codec.how \in {"truncated", "extended"})
      => codec.result = "AbiDecodeRevert"

\* C25: no type confusion.  A valid encoding with one byte changed is either
\* rejected by decode or decodes to the tuple that was encoded.
C25_NoTypeConfusion ==
    (codec.op = "decode" /\ codec.how = "byte")
      => \/ ~codec.out.ok
         \/ /\ codec.out.recipient = codec.recipient
            /\ codec.out.messageType = codec.messageType
            /\ codec.out.additionalData = codec.additionalData

\* C26: the manager reads endpoint and trustedOFT afresh on every message.
\* Right after the owner replaced the trusted OFT O by O' (the endpoint T by
\* T'), an otherwise valid message attributed to O (delivered by T) is
\* rejected with nothing changed, and one attributed to O' (delivered by T')
\* is accepted and paid in the token that is the trusted OFT now.
C26_FreshConfig ==
    (Delivered /\ rotated.step = 2 /\ ~pre.paused) =>
      /\ (rotated.what = "trustedOFT" /\ msgSender = pre.endpoint) =>
           /\ msgOApp = rotated.old => (lastResult = "UntrustedOApp" /\ Unchanged)
           /\ (msgOApp = rotated.new /\ ValidPayload(msgPayload)
                 /\ pre.balances[rotated.new][This] >= msgAmount)
                => /\ lastResult = "OK"
                   /\ balances = Moved(pre.balances, rotated.new,
                                       Decoded[msgPayload].recipient, msgAmount)
      /\ (rotated.what = "endpoint" /\ msgOApp = pre.trustedOFT) =>
           /\ msgSender = rotated.old => (lastResult = "UnauthorizedSender" /\ Unchanged)
           /\ (msgSender = rotated.new /\ ValidPayload(msgPayload)
                 /\ pre.balances[pre.trustedOFT][This] >= msgAmount)
                => /\ lastResult = "OK"
                   /\ balances = Moved(pre.balances, pre.trustedOFT,
                                       Decoded[msgPayload].recipient, msgAmount)

C26_Witness ==
    /\ Delivered /\ rotated.step = 2 /\ rotated.what = "trustedOFT"
    /\ rotated.old = O1 /\ rotated.new = O2
    /\ msgOApp = O2 /\ lastResult = "OK"
    /\ pre.balances[O1][This] > 0
    /\ balances[O2][Alice] = msgAmount /\ balances[O1] = pre.balances[O1]

\* C27: emergencyWithdraw by the owner succeeds, paused or not, for any token
\* and any amount the manager holds, and moves that amount to _to; its only
\* check is _to = 0, which fails with ZeroAddress and moves nothing; it
\* leaves totalProcessed, paused, trustedOFT and endpoint as they were.
C27_EmergencyWithdraw ==
    (lastCall.op = "emergencyWithdraw" /\ lastCall.sender = pre.owner) =>
      /\ lastCall.a2 = ZeroAddr => (lastResult = "ZeroAddress" /\ Unchanged)
      /\ (lastCall.a2 # ZeroAddr /\ pre.balances[lastCall.a1][This] >= lastCall.amount)
           => /\ lastResult = "OK"
              /\ balances = Moved(pre.balances, lastCall.a1, lastCall.a2, lastCall.amount)
      /\ totalProcessed = pre.totalProcessed /\ paused = pre.paused
      /\ trustedOFT = pre.trustedOFT /\ endpoint = pre.endpoint

C27_Witness ==
    /\ lastCall.op = "emergencyWithdraw" /\ lastCall.sender = pre.owner
    /\ pre.paused /\ lastResult = "OK"
    /\ lastCall.a1 = O1 /\ lastCall.a2 = Alice /\ lastCall.amount = MaxAmount
    /\ balances[O1][Alice] = pre.balances[O1][Alice] + MaxAmount

\* C28: a token balance of the manager goes down only in a successful
\* lzCompose called by the endpoint for the trusted OFT, by exactly amountLD
\* of that token, all of it credited to the recipient of the payload, or in
\* a successful emergencyWithdraw of the owner; totals are conserved in
\* both, no balance goes below zero, and a call by an account that is
\* neither the owner nor the endpoint lowers no balance of the manager.
C28_FundsLeave ==
    /\ \A t \in Tokens :
         balances[t][This] < pre.balances[t][This] =>
           \/ /\ Delivered /\ lastResult = "OK"
              /\ msgSender = pre.endpoint /\ msgOApp = pre.trustedOFT /\ t = pre.trustedOFT
              /\ balances = Moved(pre.balances, t, Decoded[msgPayload].recipient, msgAmount)
           \/ /\ lastCall.op = "emergencyWithdraw" /\ lastResult = "OK"
              /\ lastCall.sender = pre.owner /\ t = lastCall.a1
              /\ balances = Moved(pre.balances, t, lastCall.a2, lastCall.amount)
    /\ \A t \in Tokens, h \in Holders : balances[t][h] >= 0
    /\ lastCall.op \in {"lzCompose", "emergencyWithdraw"}
         => \A t \in Tokens : Supply(balances, t) = Supply(pre.balances, t)
    /\ lastCall.sender \notin {pre.owner, pre.endpoint}
         => \A t \in Tokens : balances[t][This] >= pre.balances[t][This]

C28_Witness ==
    /\ Delivered /\ lastResult = "OK" /\ msgAmount = MaxAmount
    /\ balances[O1][This] = pre.balances[O1][This] - MaxAmount
    /\ balances[O1][Alice] = pre.balances[O1][Alice] + MaxAmount
    /\ Decoded[msgPayload].messageType = BURNT

\* C29: for the same arguments and state quoteSendComposed and sendComposed
\* build the same SendParam: addressed to the manager registered for the
\* destination, amountLD = minAmountLD = _amount, the same compose message,
\* options and oftCmd; and quoteSendComposed changes no state.
C29_QuoteIsSend ==
    /\ (Quoted /\ sendPre.request.built)
         => /\ sendPre.request = buildSendParam(sentTo, sentAmount, sentEid, sentType)
            /\ sendPre.request.to = crossChainManagers[sentEid]
            /\ sendPre.request.to # ZeroAddr
            /\ sendPre.request.amountLD = sentAmount
            /\ sendPre.request.minAmountLD = sentAmount
    /\ (Sent /\ sendPre.request.built)
         => sendPre.request = quoteSendParam(sentTo, sentAmount, sentEid, sentType)
    /\ Quoted
         => /\ NothingSent
            /\ peers = sendPre.peers
            /\ crossChainManagers = sendPre.crossChainManagers

C29_Witness ==
    /\ Quoted /\ lastResult = "OK" /\ sendPre.request.built
    /\ sentType = BURNT /\ sentTo = Alice /\ sentAmount = MaxAmount
    /\ sendPre.request.to = This
    /\ sendPre.request.composeMsg = encodeBurnt(Alice, MaxAmount)
    /\ inflight.stage = "sent"

\* C30: runs of the deploy scripts at the same time do not clobber each
\* other's update of deployments.json.  The read-modify-write is made by one
\* run at a time, under the lock file, which is gone when the runs are
\* over; and a write sets no field back to a value read before the lock:
\* a field the file had just before the write keeps its value, or gets the
\* address of the contract the run itself deployed.
C30_NoClobber ==
    LET last == scripts.lastWrite
        after == scripts.file
        UnderLock(r) == pcOf(r) \in {"locked", "merged", "written"}
    IN
    /\ \A r1, r2 \in Runs : (UnderLock(r1) /\ UnderLock(r2)) => r1 = r2
    /\ \A r \in Runs : UnderLock(r) => scripts.lock = r
    /\ (\A r \in Runs : pcOf(r) \in {"done", "failed"}) => scripts.lock = 0
    /\ (last.by # 0 /\ last.before.tokenAddress # 0) =>
         \/ after.tokenAddress = last.before.tokenAddress
         \/ /\ last.by \in OFTRuns
            /\ after.tokenAddress = scripts.runs[last.by].address
    /\ (last.by # 0 /\ last.before.crossChainManagerAddress # 0) =>
         \/ after.crossChainManagerAddress = last.before.crossChainManagerAddress
         \/ /\ last.by \in ManagerRuns
            /\ after.crossChainManagerAddress = scripts.runs[last.by].address
    /\ (last.by # 0 /\ last.before.lzEndpoint # 0) =>
         after.lzEndpoint = last.before.lzEndpoint

====
